---------------------------- MODULE Spec2Model ----------------------------
(***************************************************************************)
(* GeeORM: clause builder, session, transaction wrapper and migration.     *)
(* SQL text is modelled by TLA+ strings, Go interface{} values by tagged   *)
(* pairs <<type, value>>, Go maps by functions on the set of their keys.   *)
(***************************************************************************)
EXTENDS Integers, Sequences, FiniteSets, TLC

VARIABLES
    session,    \* the session: db, dialect, sql, sqlVars, refTable, clause, tx
    db,         \* the database: the committed tables and the transactions
    last,       \* the name of the operation that ran last
    ret,        \* what it returned
    calls,      \* the calls it made on the driver, each with the session's state then
    hist,       \* history: the operations run, the Raw calls pending, whether the
                \* texts and values the caller passed since the last Clear matched,
                \* and whether those of the statement handed over last did
    given,      \* history: per clause kind, the arguments of the latest Set
    firstSet,   \* history: the kind of the first Set since the clause set was empty
    built       \* the latest result of Clause.Build, with the order it was called with

(***************************************************************************)
(* Go values                                                               *)
(***************************************************************************)
GoStr(s) == <<"string", s>>
GoInt(n) == <<"int", n>>

NoMap == [k \in {} |-> ""]

None == [none |-> TRUE]

(***************************************************************************)
(* strings                                                                 *)
(***************************************************************************)
\* strings.Join(elems, sep)
RECURSIVE Join(_, _)
Join(elems, sep) ==
    IF elems = <<>> THEN ""
    ELSE IF Len(elems) = 1 THEN elems[1]
    ELSE elems[1] \o sep \o Join(Tail(elems), sep)

\* the number of ?-placeholders of a SQL text
Placeholders(text) == Cardinality({i \in 1..Len(text) : SubSeq(text, i, i) = "?"})

RECURSIVE Flatten(_)
Flatten(seqs) == IF seqs = <<>> THEN <<>> ELSE Head(seqs) \o Flatten(Tail(seqs))

(***************************************************************************)
(* The SQLite engine behind database/sql, as far as the statements of this *)
(* library need it: the text is cut into tokens, every statement of it is  *)
(* recognised and run against the tables.                                  *)
(***************************************************************************)
Punct == {"(", ")", ",", ";"}

\* the tokens of a text: the punctuation marks, and the runs of other
\* characters that spaces and punctuation marks delimit
Tokenize(text) ==
    LET n == Len(text)
        ch == [i \in 1..n |-> SubSeq(text, i, i)]
        cut(i) == ch[i] = " " \/ ch[i] \in Punct
        starts == {i \in 1..n : ch[i] # " " /\ (cut(i) \/ i = 1 \/ cut(i - 1))}
        stop(i) == IF cut(i) THEN i
                   ELSE IF \E j \in (i + 1)..n : cut(j)
                   THEN (CHOOSE j \in (i + 1)..n :
                            cut(j) /\ \A k \in (i + 1)..(j - 1) : ~cut(k)) - 1
                   ELSE n
        nth(k) == CHOOSE i \in starts : Cardinality({j \in starts : j < i}) = k - 1
    IN  [k \in 1..Cardinality(starts) |-> SubSeq(text, nth(k), stop(nth(k)))]

\* the statements of a token sequence: the runs between ";" that are not empty
RECURSIVE SplitStmts(_, _, _)
SplitStmts(toks, cur, acc) ==
    LET flushed == IF cur = <<>> THEN acc ELSE Append(acc, cur)
    IN  IF toks = <<>> THEN flushed
        ELSE IF Head(toks) = ";" THEN SplitStmts(Tail(toks), <<>>, flushed)
        ELSE SplitStmts(Tail(toks), Append(cur, Head(toks)), acc)

Statements(text) == SplitStmts(Tokenize(text), <<>>, <<>>)

\* the positions of token w in t
Positions(t, w) == {i \in 1..Len(t) : t[i] = w}

\* the runs of t between commas
RECURSIVE SplitCommas(_, _, _)
SplitCommas(toks, cur, acc) ==
    IF toks = <<>> THEN Append(acc, cur)
    ELSE IF Head(toks) = "," THEN SplitCommas(Tail(toks), <<>>, Append(acc, cur))
    ELSE SplitCommas(Tail(toks), Append(cur, Head(toks)), acc)

CommaList(toks) == IF toks = <<>> THEN <<>> ELSE SplitCommas(toks, <<>>, <<>>)

IsFrom(w) == w \in {"FROM", "from"}
IsAnd(w) == w \in {"AND", "and"}

SyntaxError == [op |-> "error"]

\* the runs of toks between the tokens that satisfy Sep
RECURSIVE SplitOn(_, _, _, _)
SplitOn(toks, Sep(_), cur, acc) ==
    IF toks = <<>> THEN Append(acc, cur)
    ELSE IF Sep(Head(toks)) THEN SplitOn(Tail(toks), Sep, <<>>, Append(acc, cur))
    ELSE SplitOn(Tail(toks), Sep, Append(cur, Head(toks)), acc)

MinOf(S) == CHOOSE i \in S : \A j \in S : i <= j

\* the sizes of the groups "( ?, ? )" of a VALUES list; <<-1>> when it is not one
RECURSIVE GroupSizes(_, _, _)
GroupSizes(toks, cur, acc) ==
    IF toks = <<>> THEN (IF cur = -1 THEN acc ELSE <<-1>>)
    ELSE LET h == Head(toks)
         IN  IF h = "(" /\ cur = -1 THEN GroupSizes(Tail(toks), 0, acc)
             ELSE IF h = "?" /\ cur >= 0 THEN GroupSizes(Tail(toks), cur + 1, acc)
             ELSE IF h = "," THEN GroupSizes(Tail(toks), cur, acc)
             ELSE IF h = ")" /\ cur >= 0 THEN GroupSizes(Tail(toks), -1, Append(acc, cur))
             ELSE <<-1>>

CompareOps == {"=", ">", "<"}

\* the first position of token w in t, 0 when it has none
At(t, w) == IF Positions(t, w) = {} THEN 0 ELSE MinOf(Positions(t, w))

\* the tail of a statement whose WHERE, ORDER and LIMIT are at w, o and l,
\* with the conditions and the ordering read from it
TailRead(t, w, o, l, conds, ord) ==
    LET ok == /\ (IF w > 0 THEN w ELSE IF o > 0 THEN o ELSE IF l > 0 THEN l
                  ELSE Len(t) + 1) = 1
              /\ (w > 0 /\ o > 0) => w < o
              /\ (w > 0 /\ l > 0) => w < l
              /\ (o > 0 /\ l > 0) => o < l
              /\ \A i \in 1..Len(conds) :
                    Len(conds[i]) = 3 /\ conds[i][2] \in CompareOps
              /\ o > 0 => /\ Len(ord) \in {2, 3}
                          /\ ord[1] = "BY"
                          /\ Len(ord) = 3 => ord[3] \in {"DESC", "ASC"}
              /\ l > 0 => l + 1 = Len(t)
    IN  [ok |-> ok,
         whereAt |-> w,
         conds |-> conds,
         order |-> IF o > 0 /\ ok THEN <<ord[2], Len(ord) = 3 /\ ord[3] = "DESC">> ELSE <<>>,
         limitAt |-> IF l > 0 THEN l + 1 ELSE 0]

TailAt(t, w, o, l) ==
    TailRead(t, w, o, l,
             IF w = 0 THEN <<>>
             ELSE SplitOn(SubSeq(t, w + 1, IF o > 0 THEN o - 1 ELSE IF l > 0 THEN l - 1
                                           ELSE Len(t)),
                          IsAnd, <<>>, <<>>),
             IF o = 0 THEN <<>> ELSE SubSeq(t, o + 1, IF l > 0 THEN l - 1 ELSE Len(t)))

\* [WHERE c op x AND ...] [ORDER BY c [DESC]] [LIMIT x]
ParseTail(t) == TailAt(t, At(t, "WHERE"), At(t, "ORDER"), At(t, "LIMIT"))

\* the single names of a comma list
Names(list) == [i \in 1..Len(list) |-> list[i][1]]

NotNames(list) == \E i \in 1..Len(list) : Len(list[i]) # 1

CreateStmt(t, defs) ==
    IF \E i \in 1..Len(defs) : defs[i] = <<>> THEN SyntaxError
    ELSE [op |-> "create", table |-> t[3], defs |-> defs]

CreateAsStmt(t, cols) ==
    IF NotNames(cols) THEN SyntaxError
    ELSE [op |-> "createAs", table |-> t[3], cols |-> Names(cols), from |-> t[Len(t)]]

InsertStmt(t, c, cols, groups) ==
    IF \/ ~(c + 1 <= Len(t) /\ t[c + 1] = "VALUES")
       \/ NotNames(cols)
       \/ groups = <<>> \/ groups = <<-1>>
    THEN SyntaxError
    ELSE [op |-> "insert", table |-> t[3], cols |-> Names(cols), groups |-> groups]

SelectStmt(t, f, cols, count, tail) ==
    IF ~tail.ok \/ (~count /\ NotNames(cols)) THEN SyntaxError
    ELSE [op |-> "select", table |-> t[f + 1], count |-> count,
          cols |-> IF count THEN <<"count(*)">> ELSE Names(cols),
          tail |-> tail, tailAt |-> f + 1]

UpdateStmt(t, w, sets, tail) ==
    IF \/ ~tail.ok \/ tail.order # <<>> \/ tail.limitAt # 0
       \/ \E i \in 1..Len(sets) : Len(sets[i]) # 3 \/ sets[i][2] # "=" \/ sets[i][3] # "?"
    THEN SyntaxError
    ELSE [op |-> "update", table |-> t[2], cols |-> Names(sets),
          tail |-> tail, tailAt |-> w - 1]

DeleteStmt(t, tail) ==
    IF ~tail.ok \/ tail.order # <<>> \/ tail.limitAt # 0 THEN SyntaxError
    ELSE [op |-> "delete", table |-> t[3], tail |-> tail, tailAt |-> 3]

\* the statement of n tokens t, its SELECT list ending before f and its
\* UPDATE list before w
Recognise(t, n, f, w) ==
    LET kw(i, k) == i <= n /\ t[i] = k
    IN
    IF kw(1, "CREATE") /\ kw(2, "TABLE") /\ kw(4, "(") /\ n >= 6 /\ t[n] = ")" THEN
        CreateStmt(t, CommaList(SubSeq(t, 5, n - 1)))
    ELSE IF kw(1, "CREATE") /\ kw(2, "TABLE") /\ kw(4, "AS") /\ kw(5, "SELECT")
            /\ n >= 8 /\ IsFrom(t[n - 1]) THEN
        CreateAsStmt(t, CommaList(SubSeq(t, 6, n - 2)))
    ELSE IF kw(1, "DROP") /\ kw(2, "TABLE") /\ kw(3, "IF") /\ kw(4, "EXISTS") /\ n = 5 THEN
        [op |-> "drop", table |-> t[5], ifExists |-> TRUE]
    ELSE IF kw(1, "DROP") /\ kw(2, "TABLE") /\ n = 3 THEN
        [op |-> "drop", table |-> t[3], ifExists |-> FALSE]
    ELSE IF kw(1, "ALTER") /\ kw(2, "TABLE") /\ kw(4, "ADD") /\ kw(5, "COLUMN") /\ n >= 6 THEN
        [op |-> "addColumn", table |-> t[3], col |-> t[6]]
    ELSE IF kw(1, "ALTER") /\ kw(2, "TABLE") /\ kw(4, "RENAME") /\ kw(5, "TO") /\ n = 6 THEN
        [op |-> "rename", table |-> t[3], to |-> t[6]]
    ELSE IF kw(1, "INSERT") /\ kw(2, "INTO") /\ kw(4, "(") /\ At(t, ")") # 0 THEN
        InsertStmt(t, At(t, ")"), CommaList(SubSeq(t, 5, At(t, ")") - 1)),
                   GroupSizes(SubSeq(t, At(t, ")") + 2, n), -1, <<>>))
    ELSE IF t = <<"SELECT", "name", "FROM", "sqlite_master", "WHERE", "type='table'",
                  "and", "name", "=", "?">> THEN
        [op |-> "tableExists"]
    ELSE IF kw(1, "SELECT") /\ f # 0 THEN
        SelectStmt(t, f, CommaList(SubSeq(t, 2, f - 1)),
                   CommaList(SubSeq(t, 2, f - 1)) = << <<"count", "(", "*", ")">> >>,
                   ParseTail(SubSeq(t, f + 2, n)))
    ELSE IF kw(1, "UPDATE") /\ kw(3, "SET") /\ n >= 6 THEN
        UpdateStmt(t, w, CommaList(SubSeq(t, 4, w - 1)), ParseTail(SubSeq(t, w, n)))
    ELSE IF kw(1, "DELETE") /\ kw(2, "FROM") /\ n >= 3 THEN
        DeleteStmt(t, ParseTail(SubSeq(t, 4, n)))
    ELSE SyntaxError

\* one statement, recognised
ParseStmt(t) ==
    Recognise(t, Len(t),
              IF \E i \in 3..(Len(t) - 1) : IsFrom(t[i])
              THEN MinOf({i \in 3..(Len(t) - 1) : IsFrom(t[i])}) ELSE 0,
              IF At(t, "WHERE") = 0 THEN Len(t) + 1 ELSE At(t, "WHERE"))

Null == <<"nil", "">>

Digits == [d \in {"0", "1", "2", "3"} |->
             CASE d = "0" -> 0 [] d = "1" -> 1 [] d = "2" -> 2 [] d = "3" -> 3]

Literal(tok) == IF tok \in DOMAIN Digits THEN GoInt(Digits[tok]) ELSE GoStr(tok)

NumInput(t) == Cardinality(Positions(t, "?"))

\* the value of the operand at position pos of statement t: the argument bound
\* to a placeholder (the k-th argument to the k-th placeholder), or a literal
Operand(t, pos, args) ==
    IF t[pos] = "?" THEN args[Cardinality({j \in 1..pos : t[j] = "?"})]
    ELSE Literal(t[pos])

Compare(a, op, b) ==
    CASE op = "=" -> a = b
      [] op = ">" -> a[1] = "int" /\ b[1] = "int" /\ a[2] > b[2]
      [] op = "<" -> a[1] = "int" /\ b[1] = "int" /\ a[2] < b[2]

\* the columns a WHERE names
CondCols(p) == {p.tail.conds[i][1] : i \in 1..Len(p.tail.conds)}

RowMatches(row, t, p, args) ==
    \A i \in 1..Len(p.tail.conds) :
        Compare(row[p.tail.conds[i][1]], p.tail.conds[i][2],
                Operand(t, p.tailAt + p.tail.whereAt + 4 * (i - 1) + 3, args))

SortKey(v) == IF v[1] = "int" THEN v[2] ELSE 0

\* rows in the order of column col, rows of equal key in their given order
RECURSIVE InsertSorted(_, _, _, _)
InsertSorted(sorted, row, col, desc) ==
    IF sorted = <<>> THEN <<row>>
    ELSE LET k == SortKey(row[col])
             h == SortKey(Head(sorted)[col])
         IN  IF (IF desc THEN k > h ELSE k < h) THEN <<row>> \o sorted
             ELSE <<Head(sorted)>> \o InsertSorted(Tail(sorted), row, col, desc)

RECURSIVE SortRows(_, _, _)
SortRows(rows, col, desc) ==
    IF rows = <<>> THEN <<>>
    ELSE InsertSorted(SortRows(SubSeq(rows, 1, Len(rows) - 1), col, desc),
                      rows[Len(rows)], col, desc)

Filter(rows, Keep(_)) == SelectSeq(rows, Keep)

Unique(rows, pk) ==
    \A i, j \in 1..Len(rows) :
        (i # j /\ pk # {}) => \E c \in pk : rows[i][c] # rows[j][c]

NoRows == [err |-> "", columns |-> <<>>, rows |-> <<>>]

\* the rows the parsed SELECT p of statement t returns from table tab
SelectRows(tab, t, p, args, cols) ==
    LET hit == Filter(tab.rows, LAMBDA r : RowMatches(r, t, p, args))
        ord == IF p.tail.order = <<>> THEN hit
               ELSE SortRows(hit, p.tail.order[1], p.tail.order[2])
        lim == IF p.tail.limitAt = 0 THEN Null
               ELSE Operand(t, p.tailAt + p.tail.limitAt, args)
        cut == IF lim[1] = "int" /\ lim[2] >= 0 /\ lim[2] < Len(ord)
               THEN SubSeq(ord, 1, lim[2]) ELSE ord
    IN  IF p.count
        THEN [err |-> "", columns |-> cols, rows |-> <<<<GoInt(Len(cut))>>>>]
        ELSE [err |-> "", columns |-> cols,
              rows |-> [i \in 1..Len(cut) |-> [j \in 1..Len(cols) |-> cut[i][cols[j]]]]]

\* the parsed statement p of text t as a query
Query(tables, t, p, args) ==
    IF p.op = "error" THEN [NoRows EXCEPT !.err = "syntax error"]
    ELSE IF p.op = "tableExists" THEN
        [err |-> "", columns |-> <<"name">>,
         rows |-> IF args[1][1] = "string" /\ args[1][2] \in DOMAIN tables
                  THEN <<<<args[1]>>>> ELSE <<>>]
    ELSE IF p.op # "select" THEN NoRows
    ELSE IF p.table \notin DOMAIN tables THEN [NoRows EXCEPT !.err = "no such table"]
    ELSE IF ~(((IF p.count \/ p.cols = <<"*">> THEN {}
                ELSE {p.cols[i] : i \in 1..Len(p.cols)})
               \cup CondCols(p)
               \cup (IF p.tail.order = <<>> THEN {} ELSE {p.tail.order[1]}))
              \subseteq {tables[p.table].cols[i] : i \in 1..Len(tables[p.table].cols)})
    THEN [NoRows EXCEPT !.err = "no such column"]
    ELSE SelectRows(tables[p.table], t, p, args,
                    IF p.cols = <<"*">> THEN tables[p.table].cols ELSE p.cols)

\* a query: the columns and rows it returns
QueryStmt(tables, t, args) == Query(tables, t, ParseStmt(t), args)

Failed(tables, msg) == [tables |-> tables, err |-> msg, n |-> 0]
Done(tables, n) == [tables |-> tables, err |-> "", n |-> n]

\* a statement run for its effect: the tables after it and the rows it affected
RunStmt(tables, t, p, args) ==
    LET exists == p.table \in DOMAIN tables
        tab == tables[p.table]
        known == {tab.cols[i] : i \in 1..Len(tab.cols)}
    IN
    CASE p.op = "error" -> Failed(tables, "syntax error")
      [] p.op \in {"tableExists", "select"} ->
            [tables |-> tables, err |-> Query(tables, t, p, args).err, n |-> 0]
      [] p.op = "create" ->
            LET names == [i \in 1..Len(p.defs) |-> p.defs[i][1]]
            IN  IF exists THEN Failed(tables, "table already exists")
                ELSE IF \E i, j \in 1..Len(names) : i # j /\ names[i] = names[j]
                THEN Failed(tables, "duplicate column name")
                ELSE Done((p.table :> [cols |-> names,
                                       pk |-> {p.defs[i][1] : i \in
                                                {k \in 1..Len(p.defs) :
                                                   Positions(p.defs[k], "PRIMARY") # {}}},
                                       rows |-> <<>>]) @@ tables, 0)
      [] p.op = "createAs" ->
            IF exists THEN Failed(tables, "table already exists")
            ELSE IF p.from \notin DOMAIN tables THEN Failed(tables, "no such table")
            ELSE LET src == tables[p.from]
                 IN  IF \E i \in 1..Len(p.cols) :
                            p.cols[i] \notin {src.cols[k] : k \in 1..Len(src.cols)}
                     THEN Failed(tables, "no such column")
                     ELSE Done((p.table :>
                                  [cols |-> p.cols, pk |-> {},
                                   rows |-> [i \in 1..Len(src.rows) |->
                                               [c \in {p.cols[k] : k \in 1..Len(p.cols)}
                                                  |-> src.rows[i][c]]]]) @@ tables,
                               Len(src.rows))
      [] p.op = "drop" ->
            IF exists THEN Done([x \in DOMAIN tables \ {p.table} |-> tables[x]], 0)
            ELSE IF p.ifExists THEN Done(tables, 0)
            ELSE Failed(tables, "no such table")
      [] p.op = "addColumn" ->
            IF ~exists THEN Failed(tables, "no such table")
            ELSE IF p.col \in known THEN Failed(tables, "duplicate column name")
            ELSE Done([tables EXCEPT ![p.table] =
                         [cols |-> Append(tab.cols, p.col), pk |-> tab.pk,
                          rows |-> [i \in 1..Len(tab.rows) |->
                                      (p.col :> Null) @@ tab.rows[i]]]], 0)
      [] p.op = "rename" ->
            IF ~exists THEN Failed(tables, "no such table")
            ELSE IF p.to \in DOMAIN tables THEN Failed(tables, "table already exists")
            ELSE Done((p.to :> tab) @@ [x \in DOMAIN tables \ {p.table} |-> tables[x]], 0)
      [] p.op = "insert" ->
            IF ~exists THEN Failed(tables, "no such table")
            ELSE IF \E i \in 1..Len(p.cols) : p.cols[i] \notin known
            THEN Failed(tables, "no such column")
            ELSE IF \E i \in 1..Len(p.groups) : p.groups[i] # Len(p.cols)
            THEN Failed(tables, "values for columns")
            ELSE LET w == Len(p.cols)
                     new == [g \in 1..Len(p.groups) |->
                               [c \in known |->
                                  IF \E k \in 1..w : p.cols[k] = c
                                  THEN args[(g - 1) * w + (CHOOSE k \in 1..w : p.cols[k] = c)]
                                  ELSE Null]]
                     all == tab.rows \o new
                 IN  IF ~Unique(all, tab.pk) THEN Failed(tables, "UNIQUE constraint failed")
                     ELSE Done([tables EXCEPT ![p.table].rows = all], Len(new))
      [] p.op = "update" ->
            IF ~exists THEN Failed(tables, "no such table")
            ELSE IF ~(({p.cols[i] : i \in 1..Len(p.cols)} \cup CondCols(p)) \subseteq known)
            THEN Failed(tables, "no such column")
            ELSE LET hit(r) == RowMatches(r, t, p, args)
                     set(r) == [c \in known |->
                                  IF \E k \in 1..Len(p.cols) : p.cols[k] = c
                                  THEN args[CHOOSE k \in 1..Len(p.cols) :
                                              /\ p.cols[k] = c
                                              /\ \A m \in (k + 1)..Len(p.cols) : p.cols[m] # c]
                                  ELSE r[c]]
                     all == [i \in 1..Len(tab.rows) |->
                               IF hit(tab.rows[i]) THEN set(tab.rows[i]) ELSE tab.rows[i]]
                 IN  IF ~Unique(all, tab.pk) THEN Failed(tables, "UNIQUE constraint failed")
                     ELSE Done([tables EXCEPT ![p.table].rows = all],
                               Len(Filter(tab.rows, hit)))
      [] p.op = "delete" ->
            IF ~exists THEN Failed(tables, "no such table")
            ELSE IF ~(CondCols(p) \subseteq known) THEN Failed(tables, "no such column")
            ELSE LET hit(r) == RowMatches(r, t, p, args)
                     keep(r) == ~hit(r)
                 IN  Done([tables EXCEPT ![p.table].rows = Filter(tab.rows, keep)],
                          Len(Filter(tab.rows, hit)))

ExecStmt(tables, t, args) == RunStmt(tables, t, ParseStmt(t), args)

\* go-sqlite3 runs the statements of a text one after the other, each taking
\* the arguments its placeholders need from those left; it stops at the first
\* error and keeps what ran before
RECURSIVE ExecAll(_, _, _, _)
ExecRest(r, stmts, args) ==
    IF r.err # "" THEN r ELSE ExecAll(r.tables, stmts, args, r.n)

ExecAll(tables, stmts, args, n) ==
    IF stmts = <<>> THEN Done(tables, n)
    ELSE IF Len(args) < NumInput(Head(stmts)) THEN Failed(tables, "not enough args")
    ELSE ExecRest(ExecStmt(tables, Head(stmts), SubSeq(args, 1, NumInput(Head(stmts)))),
                  Tail(stmts),
                  SubSeq(args, NumInput(Head(stmts)) + 1, Len(args)))

\* a query text: the statements before the last are prepared and dropped
RECURSIVE QueryAll(_, _, _)
QueryRest(tables, stmts, args, p) ==
    IF p.op = "error" THEN [NoRows EXCEPT !.err = "syntax error"]
    ELSE IF Len(stmts) = 1
    THEN Query(tables, Head(stmts), p, SubSeq(args, 1, NumInput(Head(stmts))))
    ELSE QueryAll(tables, Tail(stmts), SubSeq(args, NumInput(Head(stmts)) + 1, Len(args)))

QueryAll(tables, stmts, args) ==
    IF stmts = <<>> THEN NoRows
    ELSE IF Len(args) < NumInput(Head(stmts)) THEN [NoRows EXCEPT !.err = "not enough args"]
    ELSE QueryRest(tables, stmts, args, ParseStmt(Head(stmts)))

(***************************************************************************)
(* database/sql over one SQLite file: the committed tables and the         *)
(* transactions begun so far. A transaction works on its own copy of the   *)
(* tables from its first statement on; handle 0 is the direct connection.  *)
(***************************************************************************)
FreshTx == [state |-> "fresh", tables |-> NoMap, wrote |-> FALSE]

ErrTxDone == "sql: transaction has already been committed or rolled back"
ErrLocked == "database is locked"
ErrDriver == "driver: bad connection"

Active(D, except) == {i \in 1..Len(D.txs) : i # except /\ D.txs[i].state = "active"}
Writers(D, except) == {i \in Active(D, except) : D.txs[i].wrote}

\* the tables a statement sent through handle h sees
View(D, h) ==
    IF h = 0 \/ D.txs[h].state = "fresh" THEN D.tables ELSE D.txs[h].tables

\* what handle h of D reports and leaves after its statements ran as r
Applied(D, h, r) ==
    IF r.tables # View(D, h) /\ (IF h = 0 THEN Active(D, 0) ELSE Writers(D, h)) # {}
    THEN [d |-> D, err |-> ErrLocked, n |-> 0]
    ELSE [d |-> IF h = 0 THEN [D EXCEPT !.tables = r.tables]
                ELSE [D EXCEPT !.txs[h] =
                        [state |-> "active", tables |-> r.tables,
                         wrote |-> @.wrote \/ r.tables # View(D, h)]],
          err |-> r.err, n |-> r.n]

\* DB.Exec and Tx.Exec
DBExec(D, h, text, args, fail) ==
    IF fail THEN [d |-> D, err |-> ErrDriver, n |-> 0]
    ELSE IF h # 0 /\ D.txs[h].state = "done" THEN [d |-> D, err |-> ErrTxDone, n |-> 0]
    ELSE Applied(D, h, ExecAll(View(D, h), Statements(text), args, 0))

\* DB.Query and Tx.Query
DBQuery(D, h, text, args, fail) ==
    IF fail THEN [d |-> D, res |-> [NoRows EXCEPT !.err = ErrDriver]]
    ELSE IF h # 0 /\ D.txs[h].state = "done"
    THEN [d |-> D, res |-> [NoRows EXCEPT !.err = ErrTxDone]]
    ELSE [d |-> IF h = 0 THEN D
                ELSE [D EXCEPT !.txs[h] =
                        [state |-> "active", tables |-> View(D, h), wrote |-> @.wrote]],
          res |-> QueryAll(View(D, h), Statements(text), args)]

\* DB.Begin: the new transaction is the last of D.txs
DBBegin(D, fail) ==
    IF fail THEN [d |-> D, err |-> ErrDriver, tx |-> 0]
    ELSE [d |-> [D EXCEPT !.txs = Append(@, FreshTx)], err |-> "", tx |-> Len(D.txs) + 1]

FinishTx(D, h) == [D EXCEPT !.txs[h] = [state |-> "done", tables |-> NoMap, wrote |-> FALSE]]

\* Tx.Commit: a commit that fails leaves the committed tables as they were
TxCommit(D, h, fail) ==
    IF D.txs[h].state = "done" THEN [d |-> D, err |-> ErrTxDone]
    ELSE IF fail THEN [d |-> FinishTx(D, h), err |-> ErrDriver]
    ELSE IF D.txs[h].wrote /\ Active(D, h) # {} THEN [d |-> FinishTx(D, h), err |-> ErrLocked]
    ELSE [d |-> IF D.txs[h].wrote THEN FinishTx([D EXCEPT !.tables = D.txs[h].tables], h)
                ELSE FinishTx(D, h),
          err |-> ""]

\* Tx.Rollback: the transaction is over even when the driver reports an error
TxRollback(D, h, fail) ==
    IF D.txs[h].state = "done" THEN [d |-> D, err |-> ErrTxDone]
    ELSE [d |-> FinishTx(D, h), err |-> IF fail THEN ErrDriver ELSE ""]

(***************************************************************************)
(* clause/generator.go                                                     *)
(***************************************************************************)
genBindVars(num) == Join([i \in 1..num |-> "?"], ", ")

_insert(tableName, fields) ==
    [sql |-> "INSERT INTO " \o tableName \o " (" \o Join(fields, ", ") \o ")",
     vars |-> <<>>]

\* bindStr is computed when it is still empty: from the first row, and again
\* from each later row as long as the rows before it had no values
RECURSIVE ValuesText(_, _, _)
ValuesText(values, i, bindStr) ==
    IF i > Len(values) THEN ""
    ELSE LET b == IF bindStr = "" THEN genBindVars(Len(values[i])) ELSE bindStr
         IN  "(" \o b \o ")"
             \o (IF i # Len(values) THEN ", " ELSE "")
             \o ValuesText(values, i + 1, b)

\* a _values whose vars = v keeps the values of the last row only
_valuesLastRow(values) ==
    [sql |-> "VALUES " \o ValuesText(values, 1, ""),
     vars |-> IF values = <<>> THEN <<>> ELSE values[Len(values)]]

_values(values) ==
    [sql |-> "VALUES " \o ValuesText(values, 1, ""),
     vars |-> Flatten(values)]

_select(tableName, fields) ==
    [sql |-> "SELECT " \o Join(fields, ", ") \o " FROM " \o tableName,
     vars |-> <<>>]

_limit(values) == [sql |-> "LIMIT ?", vars |-> values]

_where(values) == [sql |-> "WHERE " \o values[1][2], vars |-> Tail(values)]

_orderBy(desc) == [sql |-> "ORDER BY " \o desc, vars |-> <<>>]

\* m: the map's entries <<key, value>> in the order the range loop visits them
_update(tableName, m) ==
    [sql |-> "UPDATE " \o tableName \o " SET "
             \o Join([i \in 1..Len(m) |-> m[i][1] \o " = ?"], ", "),
     vars |-> [i \in 1..Len(m) |-> m[i][2]]]

_delete(tableName) == [sql |-> "DELETE FROM " \o tableName, vars |-> <<>>]

_count(tableName) == _select(tableName, <<"count(*)">>)

(***************************************************************************)
(* clause: Clause.Set, Clause.Build                                        *)
(***************************************************************************)
Types == {"INSERT", "VALUES", "SELECT", "LIMIT", "WHERE", "ORDERBY",
          "UPDATE", "DELETE", "COUNT"}

EmptyClause == [sql |-> NoMap, sqlVars |-> NoMap]

\* a Set that keeps the entry a kind already has
ClauseSetKeeps(c, name, gen) ==
    [sql |-> c.sql @@ (name :> gen.sql),
     sqlVars |-> c.sqlVars @@ (name :> gen.vars)]

\* c.Set(name, vars...), gen being generators[name](vars...)
ClauseSet(c, name, gen) ==
    [sql |-> (name :> gen.sql) @@ c.sql,
     sqlVars |-> (name :> gen.vars) @@ c.sqlVars]

RECURSIVE BuildSqls(_, _)
BuildSqls(c, orders) ==
    IF orders = <<>> THEN <<>>
    ELSE (IF Head(orders) \in DOMAIN c.sql THEN <<c.sql[Head(orders)]>> ELSE <<>>)
         \o BuildSqls(c, Tail(orders))

RECURSIVE BuildVars(_, _)
BuildVars(c, orders) ==
    IF orders = <<>> THEN <<>>
    ELSE (IF Head(orders) \in DOMAIN c.sql THEN c.sqlVars[Head(orders)] ELSE <<>>)
         \o BuildVars(c, Tail(orders))

\* a Build that takes the parameters of the kinds from the last to the first
BuildVarsBackwards(c, orders) ==
    [sql |-> Join(BuildSqls(c, orders), " "),
     vars |-> BuildVars(c, [i \in 1..Len(orders) |-> orders[Len(orders) + 1 - i]])]

Build(c, orders) ==
    [sql |-> Join(BuildSqls(c, orders), " "), vars |-> BuildVars(c, orders)]

\* generators[name](vars...)
Generate(name, vars) ==
    CASE name = "INSERT"  -> _insert(vars[1], vars[2])
      [] name = "VALUES"  -> _values(vars)
      [] name = "SELECT"  -> _select(vars[1], vars[2])
      [] name = "LIMIT"   -> _limit(vars)
      [] name = "WHERE"   -> _where(vars)
      [] name = "ORDERBY" -> _orderBy(vars[1])
      [] name = "UPDATE"  -> _update(vars[1], vars[2])
      [] name = "DELETE"  -> _delete(vars[1])
      [] name = "COUNT"   -> _count(vars[1])

(***************************************************************************)
(* dialect/sqlite3.go                                                      *)
(***************************************************************************)
Panic == "panic"

\* the kinds of the Go types, by reflect.Kind; "time.Time" is the struct time.Time
DataTypeOf(kind) ==
    CASE kind = "bool" -> "bool"
      [] kind \in {"int", "int8", "int16", "int32", "uint", "uint8", "uint16", "uint32"}
            -> "integer"
      [] kind \in {"int64", "uint64"} -> "bigint"
      [] kind \in {"float32", "float64"} -> "real"
      [] kind = "string" -> "text"
      [] kind \in {"array", "slice"} -> "blob"
      [] kind = "time.Time" -> "datetime"
      [] OTHER -> Panic

TableExistSQL(tableName) ==
    [sql |-> "SELECT name FROM sqlite_master WHERE type='table' and name = ?",
     args |-> <<GoStr(tableName)>>]

(***************************************************************************)
(* schema: record types, Parse, RecordValues                               *)
(***************************************************************************)
Fld(name, kind, anonymous, hasTag, tag) ==
    [Name |-> name, Kind |-> kind, Anonymous |-> anonymous, HasTag |-> hasTag, Tag |-> tag]

\* the struct types records are made of: User as the tests declare it, a
\* type with an unexported and an embedded field, and a type with hooks
RecordTypes ==
    [User    |-> << Fld("Name", "string", FALSE, TRUE, "PRIMARY KEY"),
                    Fld("Age", "int", FALSE, FALSE, "") >>,
     Account |-> << Fld("ID", "int64", FALSE, TRUE, "PRIMARY KEY"),
                    Fld("secret", "string", FALSE, FALSE, ""),
                    Fld("User", "struct", TRUE, FALSE, ""),
                    Fld("Email", "string", FALSE, FALSE, ""),
                    Fld("Active", "bool", FALSE, FALSE, "") >>,
     Hooked  |-> << Fld("Name", "string", FALSE, FALSE, "") >>]

Upper == {"A", "B", "C", "D", "E", "F", "G", "H", "I", "J", "K", "L", "M",
          "N", "O", "P", "Q", "R", "S", "T", "U", "V", "W", "X", "Y", "Z"}

\* ast.IsExported
IsExported(name) == Len(name) > 0 /\ SubSeq(name, 1, 1) \in Upper

\* a record value: its struct type, whether it is passed as a pointer, its fields
Rec(type, ptr, val) == [type |-> type, ptr |-> ptr, val |-> val]

\* reflect.TypeOf
TypeOf(value) == <<value.type, value.ptr>>

\* the schema of dest, cols being the fields of its type that become columns
SchemaOf(dest, cols) ==
    [Model |-> dest,
     Name |-> dest.type,
     Fields |-> [i \in 1..Len(cols) |->
                   [Name |-> cols[i].Name,
                    Type |-> DataTypeOf(cols[i].Kind),
                    Tag |-> IF cols[i].HasTag THEN cols[i].Tag ELSE ""]],
     FieldNames |-> [i \in 1..Len(cols) |-> cols[i].Name],
     fieldMap |-> [n \in {cols[i].Name : i \in 1..Len(cols)} |->
                     [Name |-> n,
                      Type |-> DataTypeOf(cols[CHOOSE i \in 1..Len(cols) :
                                                 cols[i].Name = n].Kind),
                      Tag |-> IF cols[CHOOSE i \in 1..Len(cols) : cols[i].Name = n].HasTag
                              THEN cols[CHOOSE i \in 1..Len(cols) : cols[i].Name = n].Tag
                              ELSE ""]]]

\* a selection that takes every field for a column
ColumnFieldsAll(fields) == fields

\* the fields that become columns
ColumnFields(fields) == SelectSeq(fields, LAMBDA p : ~p.Anonymous /\ IsExported(p.Name))

\* what Parse leaves for the columns cols: DataTypeOf panics at the first
\* column whose kind it has no type for
Derived(dest, cols) ==
    IF \E i \in 1..Len(cols) : DataTypeOf(cols[i].Kind) = Panic
    THEN [panic |-> "invalid sql type"]
    ELSE SchemaOf(dest, cols)

\* Parse of a value whose struct type has the given fields
ParseType(dest, fields) == Derived(dest, ColumnFields(fields))

Parse(dest) == ParseType(dest, RecordTypes[dest.type])

\* record values taken in the opposite order of the columns
RecordValuesReversed(schema, dest) ==
    [i \in 1..Len(schema.Fields) |->
       dest.val[schema.Fields[Len(schema.Fields) + 1 - i].Name]]

RecordValues(schema, dest) ==
    [i \in 1..Len(schema.Fields) |-> dest.val[schema.Fields[i].Name]]

(***************************************************************************)
(* session: raw.go                                                         *)
(***************************************************************************)
NewSession ==
    [db |-> "db", dialect |-> "sqlite3", sql |-> "", sqlVars |-> <<>>,
     refTable |-> None, clause |-> EmptyClause, tx |-> 0]

\* what a call returns: the error, the rows affected, the columns and rows of a
\* result, the answer of a yes/no question, whether it panicked, and whether
\* the cursor it opened was closed
Ret == [err |-> "", n |-> 0, columns |-> <<>>, rows |-> <<>>, has |-> FALSE,
        panic |-> FALSE, closed |-> TRUE]

\* a call on the driver: the handle it went through, the session's state when
\* it was made, and the error the driver answered
Call(name, via, S, err) ==
    [op |-> name, via |-> via, tx |-> S.tx, sql |-> S.sql, vars |-> S.sqlVars,
     clause |-> S.clause, err |-> err]

\* a Clear that also drops the bound schema
ClearUnbinds(S) ==
    [S EXCEPT !.sql = "", !.sqlVars = <<>>, !.clause = EmptyClause, !.refTable = None]

\* a Clear that leaves the clause set
ClearStatement(S) == [S EXCEPT !.sql = "", !.sqlVars = <<>>]

Clear(S) == [S EXCEPT !.sql = "", !.sqlVars = <<>>, !.clause = EmptyClause]

\* the handle statements go through: the transaction when there is one
DB(S) == IF S.tx # 0 THEN S.tx ELSE 0

Raw(S, text, values) ==
    [S EXCEPT !.sql = @ \o text \o " ", !.sqlVars = @ \o values]

\* Exec, r being what the driver answered
Executed(S, r) ==
    [s |-> Clear(S), d |-> r.d,
     ret |-> [Ret EXCEPT !.err = r.err, !.n = r.n],
     calls |-> <<Call("Exec", DB(S), S, r.err)>>]

Exec(S, D, fail) == Executed(S, DBExec(D, DB(S), S.sql, S.sqlVars, fail))

\* QueryRow, r being what the driver answered
RowQueried(S, r) ==
    [s |-> Clear(S), d |-> r.d,
     ret |-> [Ret EXCEPT !.err = r.res.err, !.rows = r.res.rows],
     calls |-> <<Call("QueryRow", 0, S, r.res.err)>>]

\* a QueryRow without the deferred Clear
QueryRowNoClear(S, D, fail) ==
    [RowQueried(S, DBQuery(D, 0, S.sql, S.sqlVars, fail)) EXCEPT !.s = S]

\* QueryRow asks s.db, the direct connection
QueryRow(S, D, fail) == RowQueried(S, DBQuery(D, 0, S.sql, S.sqlVars, fail))

\* QueryRows, r being what the driver answered
RowsQueried(S, r) ==
    [s |-> Clear(S), d |-> r.d,
     ret |-> [Ret EXCEPT !.err = r.res.err, !.columns = r.res.columns,
                         !.rows = r.res.rows, !.closed = r.res.err # ""],
     calls |-> <<Call("QueryRows", DB(S), S, r.res.err)>>]

QueryRows(S, D, fail) == RowsQueried(S, DBQuery(D, DB(S), S.sql, S.sqlVars, fail))

(***************************************************************************)
(* session: transaction.go                                                 *)
(***************************************************************************)
Panicked(S, D) == [s |-> S, d |-> D, ret |-> [Ret EXCEPT !.panic = TRUE], calls |-> <<>>]

Began(S, r) ==
    [s |-> [S EXCEPT !.tx = r.tx], d |-> r.d, ret |-> [Ret EXCEPT !.err = r.err],
     calls |-> <<Call("Begin", 0, S, r.err)>>]

\* s.tx, err = s.db.Begin(): a failed Begin leaves s.tx nil
Begin(S, D, fail) == Began(S, DBBegin(D, fail))

Finished(S, name, r) ==
    [s |-> S, d |-> r.d, ret |-> [Ret EXCEPT !.err = r.err],
     calls |-> <<Call(name, S.tx, S, r.err)>>]

Rollback(S, D, fail) ==
    IF S.tx = 0 THEN Panicked(S, D) ELSE Finished(S, "Rollback", TxRollback(D, S.tx, fail))

\* a Commit that ends the transaction the other way
CommitRollsBack(S, D, fail) ==
    IF S.tx = 0 THEN Panicked(S, D) ELSE Finished(S, "Commit", TxRollback(D, S.tx, fail))

Commit(S, D, fail) ==
    IF S.tx = 0 THEN Panicked(S, D) ELSE Finished(S, "Commit", TxCommit(D, S.tx, fail))

(***************************************************************************)
(* session: table.go                                                       *)
(***************************************************************************)
\* a Model that derives the schema at every call
ModelRederives(S, value) == [S EXCEPT !.refTable = Parse(value)]

Model(S, value) ==
    IF S.refTable = None \/ TypeOf(value) # TypeOf(S.refTable.Model)
    THEN [S EXCEPT !.refTable = Parse(value)]
    ELSE S

\* RefTable returns nil when no model is set, and its callers dereference it
NoRefTable(S) == S.refTable = None

\* the column definitions of CreateTable
ColumnDefs(table) ==
    [i \in 1..Len(table.Fields) |->
       table.Fields[i].Name \o " " \o table.Fields[i].Type \o " " \o table.Fields[i].Tag]

CreateTable(S, D, fail) ==
    IF NoRefTable(S) THEN Panicked(S, D)
    ELSE Exec(Raw(S, "CREATE TABLE " \o S.refTable.Name \o " ("
                     \o Join(ColumnDefs(S.refTable), ",") \o ");", <<>>),
              D, fail)

DropTable(S, D, fail) ==
    IF NoRefTable(S) THEN Panicked(S, D)
    ELSE Exec(Raw(S, "DROP TABLE IF EXISTS " \o S.refTable.Name, <<>>), D, fail)

\* the error of row.Scan is dropped: tmp stays "" when the query failed or
\* returned no row
TableScanned(S, r) ==
    [r EXCEPT !.ret =
       [Ret EXCEPT !.has =
          (IF r.ret.err = "" /\ r.ret.rows # <<>> /\ r.ret.rows[1][1][1] = "string"
           THEN r.ret.rows[1][1][2] ELSE "") = S.refTable.Name]]

HasTable(S, D, fail) ==
    IF NoRefTable(S) THEN Panicked(S, D)
    ELSE TableScanned(S, QueryRow(Raw(S, TableExistSQL(S.refTable.Name).sql,
                                      TableExistSQL(S.refTable.Name).args), D, fail))

(***************************************************************************)
(* session: record.go                                                      *)
(***************************************************************************)
\* s.clause.Set(name, vars...)
SetClause(S, name, gen) == [S EXCEPT !.clause = ClauseSet(@, name, gen)]

Where(S, desc, args) == SetClause(S, "WHERE", _where(<<GoStr(desc)>> \o args))

Limit(S, num) == SetClause(S, "LIMIT", _limit(<<GoInt(num)>>))

OrderBy(S, desc) == SetClause(S, "ORDERBY", _orderBy(desc))

\* s.Raw(sql, vars...).Exec() with the result b of Build
ExecBuilt(S, b, D, fail) == Exec(Raw(S, b.sql, b.vars), D, fail)

\* sql, vars := s.clause.Build(orders...) and the Exec of it
ExecBuild(S, orders, D, fail) == ExecBuilt(S, Build(S.clause, orders), D, fail)

\* the loop of Insert over its records: the session and the rows collected
RECURSIVE InsertLoop(_, _, _)
InsertOne(S, values, recordValues) ==
    InsertLoop(SetClause(S, "INSERT", _insert(S.refTable.Name, S.refTable.FieldNames)),
               Tail(values),
               Append(recordValues, RecordValues(S.refTable, Head(values))))

InsertLoop(S, values, recordValues) ==
    IF values = <<>> THEN [s |-> S, recordValues |-> recordValues]
    ELSE InsertOne(Model(S, Head(values)), values, recordValues)

InsertAll(l, D, fail) ==
    ExecBuild(SetClause(l.s, "VALUES", _values(l.recordValues)),
              <<"INSERT", "VALUES">>, D, fail)

Insert(S, D, values, fail) == InsertAll(InsertLoop(S, values, <<>>), D, fail)

IntKinds == {"int", "int8", "int16", "int32", "int64",
             "uint", "uint8", "uint16", "uint32", "uint64"}

ZeroOf(kind) ==
    CASE kind = "string" -> GoStr("")
      [] kind \in IntKinds -> GoInt(0)
      [] kind = "bool" -> <<"bool", FALSE>>
      [] OTHER -> Null

ZeroFields(fs) ==
    [n \in {fs[i].Name : i \in 1..Len(fs)} |->
       ZeroOf(fs[CHOOSE i \in 1..Len(fs) : fs[i].Name = n].Kind)]

\* the zero value of a struct type
Zero(type) == ZeroFields(RecordTypes[type])

KindIn(fs, name) == fs[CHOOSE i \in 1..Len(fs) : fs[i].Name = name].Kind

KindOf(type, name) == KindIn(RecordTypes[type], name)

\* rows.Scan of one value into a field of the given kind
ScanOK(v, kind) ==
    CASE kind = "string" -> v[1] = "string"
      [] kind \in IntKinds -> v[1] = "int"
      [] kind = "bool" -> v[1] = "bool"
      [] OTHER -> FALSE

\* the loop of Find over the rows of q: it stops at the first row that does
\* not scan and returns without closing the rows
Scanned(names, destType, zero, q) ==
    LET good(row) == /\ Len(row) = Len(names)
                     /\ \A i \in 1..Len(names) : ScanOK(row[i], KindOf(destType, names[i]))
        bad == {k \in 1..Len(q.ret.rows) : ~good(q.ret.rows[k])}
        dest(row) == Rec(destType, FALSE,
                         [n \in DOMAIN zero |->
                            IF \E i \in 1..Len(names) : names[i] = n
                            THEN row[CHOOSE i \in 1..Len(names) : names[i] = n]
                            ELSE zero[n]])
    IN  IF q.ret.err # "" THEN [q EXCEPT !.ret = [Ret EXCEPT !.err = q.ret.err]]
        ELSE [q EXCEPT !.ret =
                [Ret EXCEPT !.err = IF bad = {} THEN "" ELSE "sql: Scan error",
                            !.rows = [k \in 1..(IF bad = {} THEN Len(q.ret.rows)
                                                ELSE MinOf(bad) - 1) |->
                                        dest(q.ret.rows[k])],
                            !.closed = (bad = {})]]

QueryBuilt(S, b, D, fail) == QueryRows(Raw(S, b.sql, b.vars), D, fail)

QueryBuild(S, orders, D, fail) == QueryBuilt(S, Build(S.clause, orders), D, fail)

FindIn(S, D, destType, fail) ==
    Scanned(S.refTable.FieldNames, destType, Zero(destType),
            QueryBuild(SetClause(S, "SELECT", _select(S.refTable.Name, S.refTable.FieldNames)),
                       <<"SELECT", "WHERE", "ORDERBY", "LIMIT">>, D, fail))

Find(S, D, destType, fail) ==
    FindIn(Model(S, Rec(destType, FALSE, Zero(destType))), D, destType, fail)

FirstOf(f) ==
    IF f.ret.err # "" THEN [f EXCEPT !.ret.rows = <<>>]
    ELSE IF Len(f.ret.rows) = 0 THEN [f EXCEPT !.ret.err = "NOT FOUND"]
    ELSE [f EXCEPT !.ret.rows = <<f.ret.rows[1]>>]

\* a First that keeps the limit set earlier
FirstWithoutLimit(S, D, destType, fail) == FirstOf(Find(S, D, destType, fail))

SessionFirst(S, D, destType, fail) == FirstOf(Find(Limit(S, 1), D, destType, fail))

\* an Update that always names one row
UpdateOneRow(S, D, m, fail) ==
    IF NoRefTable(S) THEN Panicked(S, D)
    ELSE ExecBuild(SetClause(Where(S, "Name = ?", <<GoStr("Tom")>>),
                             "UPDATE", _update(S.refTable.Name, m)),
                   <<"UPDATE", "WHERE">>, D, fail)

\* m: the entries of the map in the order _update's range loop visits them
Update(S, D, m, fail) ==
    IF NoRefTable(S) THEN Panicked(S, D)
    ELSE ExecBuild(SetClause(S, "UPDATE", _update(S.refTable.Name, m)),
                   <<"UPDATE", "WHERE">>, D, fail)

Delete(S, D, fail) ==
    IF NoRefTable(S) THEN Panicked(S, D)
    ELSE ExecBuild(SetClause(S, "DELETE", _delete(S.refTable.Name)),
                   <<"DELETE", "WHERE">>, D, fail)

\* row.Scan(&tmp) of Count
Counted(r) ==
    IF r.ret.err # "" THEN r
    ELSE IF r.ret.rows = <<>> THEN [r EXCEPT !.ret.err = "sql: no rows in result set"]
    ELSE IF r.ret.rows[1][1][1] # "int"
    THEN [r EXCEPT !.ret.err = "sql: Scan error", !.ret.rows = <<>>]
    ELSE [r EXCEPT !.ret.n = r.ret.rows[1][1][2], !.ret.rows = <<>>]

RowBuilt(S, b, D, fail) == QueryRow(Raw(S, b.sql, b.vars), D, fail)

Count(S, D, fail) ==
    IF NoRefTable(S) THEN Panicked(S, D)
    ELSE Counted(RowBuilt(SetClause(S, "COUNT", _count(S.refTable.Name)),
                          Build(SetClause(S, "COUNT", _count(S.refTable.Name)).clause,
                                <<"COUNT", "WHERE">>), D, fail))

(***************************************************************************)
(* session: hooks.go                                                       *)
(***************************************************************************)
\* no value given to CallMethod
Nil == [none |-> TRUE]

\* the hook methods of the struct types: the receiver each is declared on
\* and what it returns. User declares none
HookMethods ==
    [User    |-> NoMap,
     Account |-> NoMap,
     Hooked  |-> [BeforeInsert |-> [recv |-> "value", returns |-> "nil"],
                  AfterInsert  |-> [recv |-> "pointer", returns |-> "error"],
                  AfterQuery   |-> [recv |-> "value", returns |-> "nothing"]]]

\* reflect.ValueOf(target).MethodByName(method).IsValid(): a method declared
\* on the pointer is not a method of the value
IsValid(target, method) ==
    /\ method \in DOMAIN HookMethods[target.type]
    /\ (HookMethods[target.type][method].recv = "value" \/ target.ptr)

\* what a call of CallMethod leaves: whether it panicked, the object the
\* method was called on, and what was logged
Hooked(panic, on, log) == [panic |-> panic, on |-> on, log |-> log]

\* the end of CallMethod, the method being looked up on target
Looked(target, method) ==
    IF ~IsValid(target, method) THEN Hooked(FALSE, Nil, <<>>)
    ELSE Hooked(FALSE, target,
                IF HookMethods[target.type][method].returns = "error"
                THEN <<"hook failed">> ELSE <<>>)

\* s.RefTable().Model is read before value is looked at
CallMethod(S, method, value) ==
    IF NoRefTable(S) THEN Hooked(TRUE, Nil, <<"Model is not set">>)
    ELSE Looked(IF value # Nil THEN value ELSE S.refTable.Model, method)

(***************************************************************************)
(* geeorm.go: the engine. A run of Transaction or Migrate is a record: the *)
(* session s of the run, the database d, what the last operation returned, *)
(* the driver calls made so far, the operations of the callback with their *)
(* errors, and the value p of a panic. F tells which driver calls of the   *)
(* run fail: the call number F.at, counted from 1, and, when F.end, the    *)
(* Commit or Rollback of the deferred function.                            *)
(***************************************************************************)
\* Schema.GetField
GetField(schema, name) == schema.fieldMap[name]

\* a difference that forgets to look the elements up in b
differenceAll(a, b) == a

\* the elements of a that are not in b, in the order of a
difference(a, b) == SelectSeq(a, LAMBDA x : \A i \in 1..Len(b) : b[i] # x)

NilDereference == "invalid memory address or nil pointer dereference"

\* whether the driver fails the call that comes after those of r
Fails(r, F) == Len(r.calls) + 1 = F.at

\* whether the driver fails the Commit or Rollback that comes after r
EndFails(r, F) == F.end \/ Fails(r, F)

\* the run r continued by a session operation that returned o
After(r, op, o) ==
    [s |-> o.s, d |-> o.d, ret |-> o.ret, calls |-> r.calls \o o.calls,
     log |-> Append(r.log, [op |-> op, err |-> o.ret.err]),
     p |-> IF o.ret.panic THEN NilDereference ELSE r.p]

\* one operation of a callback
Op(o, S, D, fail) ==
    CASE o.op = "CreateTable" -> CreateTable(Model(S, o.value), D, fail)
      [] o.op = "Insert" -> Insert(S, D, <<o.value>>, fail)
      [] o.op = "HasTable" -> HasTable(S, D, fail)

\* the operations of a callback, one after the other, up to a panic
RECURSIVE RunOps(_, _, _)
RunOps(r, ops, F) ==
    IF ops = <<>> \/ r.ret.panic THEN r
    ELSE RunOps(After(r, Head(ops).op, Op(Head(ops), r.s, r.d, Fails(r, F))),
                Tail(ops), F)

\* how a callback ends after its operations: it returns nil, the error of its
\* last operation or an error of its own, or it panics
Returned(r, returns) ==
    IF r.ret.panic THEN r
    ELSE IF returns = "panic" THEN [r EXCEPT !.ret = [Ret EXCEPT !.panic = TRUE], !.p = "boom"]
    ELSE [r EXCEPT !.ret = [Ret EXCEPT !.err = CASE returns = "error" -> "Error"
                                               [] returns = "last" -> r.ret.err
                                               [] OTHER -> ""]]

\* a rebuild that leaves the new table under its temporary name
RebuildWithoutRename(S, D, fail) ==
    Exec(Raw(Raw(S, "CREATE TABLE tmp_" \o S.refTable.Name \o " AS SELECT "
                    \o Join(S.refTable.FieldNames, ", ") \o " from "
                    \o S.refTable.Name \o ";", <<>>),
             "DROP TABLE " \o S.refTable.Name \o ";", <<>>),
         D, fail)

\* a rebuild that drops the table before it copies it
RebuildDropFirst(S, D, fail) ==
    Exec(Raw(Raw(Raw(S, "DROP TABLE " \o S.refTable.Name \o ";", <<>>),
                 "CREATE TABLE tmp_" \o S.refTable.Name \o " AS SELECT "
                    \o Join(S.refTable.FieldNames, ", ") \o " from "
                    \o S.refTable.Name \o ";", <<>>),
             "ALTER TABLE tmp_" \o S.refTable.Name \o " RENAME TO "
                \o S.refTable.Name \o ";", <<>>),
         D, fail)

\* the rebuild of Migrate: three statements handed over by one Exec
Rebuild(S, D, fail) ==
    Exec(Raw(Raw(Raw(S, "CREATE TABLE tmp_" \o S.refTable.Name \o " AS SELECT "
                        \o Join(S.refTable.FieldNames, ", ") \o " from "
                        \o S.refTable.Name \o ";", <<>>),
                 "DROP TABLE " \o S.refTable.Name \o ";", <<>>),
             "ALTER TABLE tmp_" \o S.refTable.Name \o " RENAME TO "
                \o S.refTable.Name \o ";", <<>>),
         D, fail)

AddColumn(S, f, D, fail) ==
    Exec(Raw(S, "ALTER TABLE " \o S.refTable.Name \o " ADD COLUMN " \o f.Name
                \o " " \o f.Type \o ";", <<>>),
         D, fail)

\* the loop of Migrate over addCols, and what follows it
RECURSIVE AddColumns(_, _, _, _)
Added(r, addCols, delCols, F) ==
    IF r.ret.err # "" THEN r ELSE AddColumns(r, addCols, delCols, F)

AddColumns(r, addCols, delCols, F) ==
    IF addCols # <<>>
    THEN Added(After(r, "AddColumn",
                     AddColumn(r.s, GetField(r.s.refTable, Head(addCols)), r.d, Fails(r, F))),
               Tail(addCols), delCols, F)
    ELSE IF Len(delCols) = 0 THEN [r EXCEPT !.ret = Ret]
    ELSE After(r, "Rebuild", Rebuild(r.s, r.d, Fails(r, F)))

\* rows, _ := ...QueryRows(); columns, _ := rows.Columns(): rows is nil when
\* the query failed
Fetched(r, F) ==
    IF r.ret.err # ""
    THEN [r EXCEPT !.ret = [Ret EXCEPT !.panic = TRUE], !.p = NilDereference]
    ELSE AddColumns(r, difference(r.s.refTable.FieldNames, r.ret.columns),
                    difference(r.ret.columns, r.s.refTable.FieldNames), F)

\* a Migrate that fetches the columns whether the table is there or not
CheckedFetches(r, F) ==
    Fetched(After(r, "QueryRows",
                  QueryRows(Raw(r.s, "SELECT * FROM " \o r.s.refTable.Name
                                     \o " LIMIT 1", <<>>),
                            r.d, Fails(r, F))), F)

\* Migrate after s.Model(value).HasTable()
Checked(r, F) ==
    IF ~r.ret.has THEN After(r, "CreateTable", CreateTable(r.s, r.d, Fails(r, F)))
    ELSE Fetched(After(r, "QueryRows",
                       QueryRows(Raw(r.s, "SELECT * FROM " \o r.s.refTable.Name
                                          \o " LIMIT 1", <<>>),
                                 r.d, Fails(r, F))), F)

\* the callback of Migrate
MigrateFn(r, value, F) ==
    Checked(After(r, "HasTable", HasTable(Model(r.s, value), r.d, Fails(r, F))), F)

\* f(s)
Fn(r, fn, F) ==
    IF fn.kind = "migrate" THEN MigrateFn(r, fn.value, F)
    ELSE Returned(RunOps(r, fn.ops, F), fn.returns)

\* an end of Transaction that returns the error of Rollback when it fails
EndedByRollback(r, e) ==
    [d |-> e.d, calls |-> r.calls \o e.calls, log |-> r.log,
     fn |-> [err |-> r.ret.err, panic |-> r.ret.panic, p |-> r.p],
     raised |-> r.p,
     ret |-> IF r.ret.panic THEN [Ret EXCEPT !.panic = TRUE]
             ELSE IF e.ret.err # "" THEN [Ret EXCEPT !.err = e.ret.err]
             ELSE [Ret EXCEPT !.err = r.ret.err]]

\* what Transaction leaves: r is the run up to the end of f, e what Commit or
\* Rollback returned
Ended(r, e) ==
    [d |-> e.d, calls |-> r.calls \o e.calls, log |-> r.log,
     fn |-> [err |-> r.ret.err, panic |-> r.ret.panic, p |-> r.p],
     raised |-> r.p,
     ret |-> IF r.ret.panic THEN [Ret EXCEPT !.panic = TRUE]
             ELSE IF r.ret.err # "" THEN [Ret EXCEPT !.err = r.ret.err]
             ELSE [Ret EXCEPT !.err = e.ret.err]]

\* a deferred function that rolls back only when f returned an error
DeferredNoRecover(r, F) ==
    IF r.ret.panic
    THEN Ended(r, [d |-> r.d, calls |-> <<>>, ret |-> Ret])
    ELSE IF r.ret.err # "" THEN Ended(r, Rollback(r.s, r.d, EndFails(r, F)))
    ELSE Ended(r, Commit(r.s, r.d, EndFails(r, F)))

\* a deferred function that commits whatever f returned
DeferredCommit(r, F) == Ended(r, Commit(r.s, r.d, EndFails(r, F)))

\* the deferred function of Transaction
Deferred(r, F) ==
    IF r.ret.panic THEN Ended(r, Rollback(r.s, r.d, EndFails(r, F)))
    ELSE IF r.ret.err # "" THEN Ended(r, Rollback(r.s, r.d, EndFails(r, F)))
    ELSE Ended(r, Commit(r.s, r.d, EndFails(r, F)))

\* Transaction after s.Begin() returned b
Begun(b, fn, F) ==
    IF b.ret.err # ""
    THEN [d |-> b.d, calls |-> b.calls, log |-> <<>>, fn |-> None, raised |-> "",
          ret |-> [Ret EXCEPT !.err = b.ret.err]]
    ELSE Deferred(Fn([s |-> b.s, d |-> b.d, ret |-> Ret, calls |-> b.calls,
                      log |-> <<>>, p |-> ""], fn, F), F)

Transaction(D, fn, F) == Begun(Begin(NewSession, D, F.at = 1), fn, F)

Migrate(D, value, F) == Transaction(D, [kind |-> "migrate", value |-> value], F)

(***************************************************************************)
(* The clause set on its own: Set and Build called in any order            *)
(***************************************************************************)
Tom == GoStr("Tom")
Sam == GoStr("Sam")

SetArgs ==
    [INSERT  |-> { <<"User", <<"Name", "Age">>>> },
     VALUES  |-> { << <<Tom, GoInt(18)>> >>,
                   << <<Tom, GoInt(18)>>, <<Sam, GoInt(25)>> >> },
     SELECT  |-> { <<"User", <<"*">>>>, <<"User", <<"Name", "Age">>>> },
     LIMIT   |-> { <<GoInt(3)>>, <<GoInt(1)>> },
     WHERE   |-> { <<GoStr("Name = ?"), Tom>>,
                   <<GoStr("Age > ? AND Age < ?"), GoInt(18), GoInt(30)>> },
     ORDERBY |-> { <<"Age DESC">> },
     UPDATE  |-> { <<"User", <<<<"Age", GoInt(30)>>>>>>,
                   <<"User", <<<<"Name", Sam>>, <<"Age", GoInt(30)>>>>>> },
     DELETE  |-> { <<"User">> },
     COUNT   |-> { <<"User">> }]

BuildOrders ==
    { <<"SELECT", "WHERE", "ORDERBY", "LIMIT">>,
      <<"INSERT", "VALUES">>,
      <<"UPDATE", "WHERE">>,
      <<"DELETE", "WHERE">>,
      <<"COUNT", "WHERE">>,
      <<"LIMIT", "WHERE", "SELECT">> }

EmptyDB == [tables |-> NoMap, txs |-> <<>>]

NoHist == [steps |-> 0, raws |-> 0, sound |-> TRUE, handedSound |-> TRUE]

vars == <<session, db, last, ret, calls, hist, given, firstSet, built>>

BInit ==
    /\ session = NewSession
    /\ db = EmptyDB
    /\ last = "New"
    /\ ret = Ret
    /\ calls = <<>>
    /\ hist = NoHist
    /\ given = NoMap
    /\ firstSet = "none"
    /\ built = None

BSet ==
    \E name \in Types : \E args \in SetArgs[name] :
        /\ session' = [session EXCEPT !.clause = ClauseSet(@, name, Generate(name, args))]
        /\ given' = (name :> args) @@ given
        /\ firstSet' = IF firstSet = "none" THEN name ELSE firstSet
        /\ built' = None
        /\ last' = "Set"
        /\ UNCHANGED <<db, ret, calls, hist>>

BBuild ==
    \E orders \in BuildOrders :
        /\ built' = [orders |-> orders, out |-> Build(session.clause, orders)]
        /\ last' = "Build"
        /\ UNCHANGED <<session, db, ret, calls, hist, given, firstSet>>

BNext == BSet \/ BBuild

SpecBuild == BInit /\ [][BNext]_vars

\* the kinds of an order that have an entry, in the order's order
Present(orders) == SelectSeq(orders, LAMBDA k : k \in DOMAIN given)

ExampleGiven ==
    /\ {"SELECT", "WHERE", "ORDERBY", "LIMIT"} \subseteq DOMAIN given
    /\ given["SELECT"] = <<"User", <<"*">>>>
    /\ given["WHERE"] = <<GoStr("Name = ?"), Tom>>
    /\ given["ORDERBY"] = <<"Age DESC">>
    /\ given["LIMIT"] = <<GoInt(3)>>

\* C9: Build(orderedKinds) returns the fragments of exactly the kinds of
\* orderedKinds that have an entry, in the order of orderedKinds whatever the
\* order of the Set calls was, joined by single spaces, and their parameters
\* concatenated in that order; the SELECT/WHERE/ORDERBY/LIMIT example yields
\* the documented text and parameters.
C9_BuildInOrder ==
    built # None =>
        LET P == Present(built.orders)
            frag(i) == Generate(P[i], given[P[i]])
        IN  /\ built.out.sql = Join([i \in 1..Len(P) |-> frag(i).sql], " ")
            /\ built.out.vars = Flatten([i \in 1..Len(P) |-> frag(i).vars])
            /\ (ExampleGiven /\ built.orders = <<"SELECT", "WHERE", "ORDERBY", "LIMIT">>)
                 => built.out =
                      [sql |-> "SELECT * FROM User WHERE Name = ? ORDER BY Age DESC LIMIT ?",
                       vars |-> <<Tom, GoInt(3)>>]

\* the example, built after LIMIT was the first kind set and with kinds set
\* that the order does not name
C9_Witness ==
    /\ built # None
    /\ built.orders = <<"SELECT", "WHERE", "ORDERBY", "LIMIT">>
    /\ ExampleGiven
    /\ firstSet = "LIMIT"
    /\ "DELETE" \in DOMAIN given

(***************************************************************************)
(* One session used by a caller: any operation, in any order               *)
(***************************************************************************)
MaxSteps == 3
MaxRaw == 1
MaxTx == 1

Bob == GoStr("Bob")

UserTom == Rec("User", TRUE, [Name |-> Tom, Age |-> GoInt(18)])
UserSam == Rec("User", TRUE, [Name |-> Sam, Age |-> GoInt(18)])
AccountBob ==
    Rec("Account", TRUE,
        [ID |-> GoInt(1), secret |-> GoStr("x"), User |-> Null,
         Email |-> Bob, Active |-> <<"bool", TRUE>>])

RowOf(value) == [c \in {"Name", "Age"} |-> value.val[c]]

UserTable(rows) == [cols |-> <<"Name", "Age">>, pk |-> {"Name"}, rows |-> rows]

UserDB == [tables |-> [User |-> UserTable(<<RowOf(UserTom)>>)], txs |-> <<>>]

ModelInputs == { Rec("User", TRUE, Zero("User")) }

InsertInputs == { <<UserSam>>, <<UserTom, UserSam>>, <<UserSam, AccountBob>> }

WhereInputs == { <<"Name = ?", <<Tom>>>>, <<"Age > ?", <<>>>> }

RawInputs == { <<"SELECT Name FROM User WHERE Age < ?", <<GoInt(30)>>>>,
               <<"DROP TABLE IF EXISTS User;", <<>>>>,
               <<"DELETE FROM User WHERE Name = ?", <<>>>> }

UpdateInputs == { << <<"Age", GoInt(30)>> >> }

\* whether a caller passed as many values as its text has placeholders
Matched(text, values) == Placeholders(text) = Len(values)

\* whether the records of one Insert have the same number of columns
SameColumns(values) ==
    \A i, j \in 1..Len(values) :
        Len(Parse(values[i]).FieldNames) = Len(Parse(values[j]).FieldNames)

Init ==
    /\ session \in { NewSession, Model(NewSession, Rec("User", TRUE, Zero("User"))) }
    /\ db \in { EmptyDB, UserDB }
    /\ last = "New"
    /\ ret = Ret
    /\ calls = <<>>
    /\ hist = NoHist
    /\ given = NoMap
    /\ firstSet = "none"
    /\ built = None

Frame == UNCHANGED <<given, firstSet, built>>

Step == hist.steps < MaxSteps

\* an operation that sets something and hands nothing to the driver; h is
\* the history after it
Sets(name, S, h) ==
    /\ Step
    /\ session' = S
    /\ last' = name
    /\ ret' = Ret
    /\ calls' = <<>>
    /\ hist' = [h EXCEPT !.steps = hist.steps + 1]
    /\ UNCHANGED db
    /\ Frame

\* an operation that ran to its end through Exec, QueryRow or QueryRows, or
\* panicked before it changed anything
Ran(name, r, sound) ==
    /\ Step
    /\ session' = r.s
    /\ db' = r.d
    /\ last' = name
    /\ ret' = r.ret
    /\ calls' = r.calls
    /\ hist' = IF r.ret.panic THEN [hist EXCEPT !.steps = @ + 1]
               ELSE [steps |-> hist.steps + 1, raws |-> 0, sound |-> TRUE,
                     handedSound |-> hist.sound /\ sound]
    /\ Frame

DoModel == \E v \in ModelInputs : Sets("Model", Model(session, v), hist)

DoRaw ==
    \E in \in RawInputs :
        /\ hist.raws < MaxRaw
        /\ Sets("Raw", Raw(session, in[1], in[2]),
                [hist EXCEPT !.raws = @ + 1, !.sound = @ /\ Matched(in[1], in[2])])

DoWhere ==
    \E in \in WhereInputs :
        Sets("Where", Where(session, in[1], in[2]),
             [hist EXCEPT !.sound = @ /\ Matched(in[1], in[2])])

\* a limit other than the one First sets
LimitInputs == {2}

DoLimit == \E num \in LimitInputs : Sets("Limit", Limit(session, num), hist)

DoOrderBy == Sets("OrderBy", OrderBy(session, "Age DESC"), hist)

DoClear == Sets("Clear", Clear(session), [hist EXCEPT !.raws = 0, !.sound = TRUE])

DoExec == \E fail \in BOOLEAN : Ran("Exec", Exec(session, db, fail), TRUE)

DoQueryRow == \E fail \in BOOLEAN : Ran("QueryRow", QueryRow(session, db, fail), TRUE)

DoQueryRows == \E fail \in BOOLEAN : Ran("QueryRows", QueryRows(session, db, fail), TRUE)

DoInsert ==
    \E fail \in BOOLEAN : \E values \in InsertInputs :
        Ran("Insert", Insert(session, db, values, fail), SameColumns(values))

DoFind == \E fail \in BOOLEAN : Ran("Find", Find(session, db, "User", fail), TRUE)

DoFirst == \E fail \in BOOLEAN : Ran("First", SessionFirst(session, db, "User", fail), TRUE)

DoUpdate ==
    \E fail \in BOOLEAN : \E m \in UpdateInputs :
        Ran("Update", Update(session, db, m, fail), TRUE)

DoDelete == \E fail \in BOOLEAN : Ran("Delete", Delete(session, db, fail), TRUE)

DoCount == \E fail \in BOOLEAN : Ran("Count", Count(session, db, fail), TRUE)

DoCreateTable == \E fail \in BOOLEAN : Ran("CreateTable", CreateTable(session, db, fail), TRUE)

DoDropTable == \E fail \in BOOLEAN : Ran("DropTable", DropTable(session, db, fail), TRUE)

DoHasTable == \E fail \in BOOLEAN : Ran("HasTable", HasTable(session, db, fail), TRUE)

\* Begin, Commit and Rollback change neither the pending statement nor the clauses
Tx(name, r) ==
    /\ Step
    /\ session' = r.s
    /\ db' = r.d
    /\ last' = name
    /\ ret' = r.ret
    /\ calls' = r.calls
    /\ hist' = [hist EXCEPT !.steps = @ + 1]
    /\ Frame

DoBegin ==
    /\ Len(db.txs) < MaxTx
    /\ \E fail \in BOOLEAN : Tx("Begin", Begin(session, db, fail))

DoCommit == \E fail \in BOOLEAN : Tx("Commit", Commit(session, db, fail))

DoRollback == \E fail \in BOOLEAN : Tx("Rollback", Rollback(session, db, fail))

Next ==
    \/ DoModel \/ DoRaw \/ DoWhere \/ DoLimit \/ DoOrderBy \/ DoClear
    \/ DoExec \/ DoQueryRow \/ DoQueryRows
    \/ DoInsert \/ DoFind \/ DoFirst \/ DoUpdate \/ DoDelete \/ DoCount
    \/ DoCreateTable \/ DoDropTable \/ DoHasTable
    \/ DoBegin \/ DoCommit \/ DoRollback

Spec == Init /\ [][Next]_vars

(***************************************************************************)
(* Properties of the session                                               *)
(***************************************************************************)
\* the operations that end in Exec, QueryRow or QueryRows
Executing == {"Exec", "QueryRow", "QueryRows", "Insert", "Find", "First", "Update",
              "Delete", "Count", "CreateTable", "DropTable", "HasTable"}

\* the calls of the last operation that handed a statement to the driver
Handed == {i \in 1..Len(calls) : calls[i].op \in {"Exec", "QueryRow", "QueryRows"}}

\* C1: after Exec, QueryRow or QueryRows returned, and so after every
\* operation that ends in one of them, whether the driver failed or not, the
\* pending SQL text, the pending parameters and the clause set are empty
C1_ClearedAfterExecuting ==
    (last \in Executing /\ Handed # {}) =>
        /\ session.sql = ""
        /\ session.sqlVars = <<>>
        /\ session.clause = EmptyClause

\* a failed QueryRow of a statement with text, parameters and clauses pending
C1_Witness ==
    /\ last = "QueryRow" /\ Handed # {}
    /\ ret.err # ""
    /\ calls[1].sql # "" /\ calls[1].vars # <<>> /\ calls[1].clause # EmptyClause
    /\ session.sql = ""

\* C2: while the transaction handle of the session is set, every statement it
\* executes goes through that handle and none through the direct connection
C2_ThroughTransaction ==
    \A i \in Handed : calls[i].tx # 0 => calls[i].via = calls[i].tx

\* the clause kinds the last operation built its statement from
OrdersOf(name) ==
    CASE name = "Insert" -> <<"INSERT", "VALUES">>
      [] name \in {"Find", "First"} -> <<"SELECT", "WHERE", "ORDERBY", "LIMIT">>
      [] name = "Update" -> <<"UPDATE", "WHERE">>
      [] name = "Delete" -> <<"DELETE", "WHERE">>
      [] name = "Count" -> <<"COUNT", "WHERE">>
      [] OTHER -> <<>>

\* the kinds of orders that clause c has, in the order of orders
Has(c, orders) == SelectSeq(orders, LAMBDA k : k \in DOMAIN c.sql)

\* the statement of a call ends with the fragments of its clauses, each with
\* as many placeholders as parameters, and its parameters end with theirs
Aligned(call, P) ==
    LET text == Join([i \in 1..Len(P) |-> call.clause.sql[P[i]]], " ") \o " "
        pars == Flatten([i \in 1..Len(P) |-> call.clause.sqlVars[P[i]]])
    IN  /\ \A i \in 1..Len(P) :
              Placeholders(call.clause.sql[P[i]]) = Len(call.clause.sqlVars[P[i]])
        /\ Len(call.sql) >= Len(text)
        /\ SubSeq(call.sql, Len(call.sql) - Len(text) + 1, Len(call.sql)) = text
        /\ Len(call.vars) >= Len(pars)
        /\ SubSeq(call.vars, Len(call.vars) - Len(pars) + 1, Len(call.vars)) = pars

\* C10: the pending parameters are as many as the placeholders of the pending
\* text, in the session and in every statement handed to the driver
C10_ParamsMatchPlaceholders ==
    /\ Placeholders(session.sql) = Len(session.sqlVars)
    /\ \A i \in Handed : Placeholders(calls[i].sql) = Len(calls[i].vars)

\* C10, for callers that pass as many values as their texts have placeholders
\* and records of as many columns each: the pending parameters are as many as
\* the placeholders of the pending text, and in the statements Insert, Find,
\* Update, Delete and Count hand over, the parameters of each clause stand
\* where its placeholders stand
C10_ParamsMatchForMatchedInputs ==
    /\ hist.sound => Placeholders(session.sql) = Len(session.sqlVars)
    /\ hist.handedSound =>
          \A i \in Handed :
              /\ Placeholders(calls[i].sql) = Len(calls[i].vars)
              /\ OrdersOf(last) # <<>> =>
                    Aligned(calls[i], Has(calls[i].clause, OrdersOf(last)))

\* Insert handed over a statement for two records
C10_Witness ==
    /\ last = "Insert" /\ Handed # {} /\ hist.handedSound
    /\ Len(calls[1].vars) = 4
    /\ ret.n = 2

\* what the driver answers to the statement of a call, asked again
Answer(call) == DBQuery(db, call.via, call.sql, call.vars, FALSE).res

\* a row of the columns Name and Age as the User that Find makes of it
UserOf(row) == Rec("User", FALSE, [Name |-> row[1], Age |-> row[2]])

\* what First makes of the answer a: nothing and "NOT FOUND" when there is no
\* row, else the one row
FirstAnswered(a) ==
    IF a.rows = <<>> THEN ret.err = "NOT FOUND" /\ ret.rows = <<>>
    ELSE /\ Len(a.rows) = 1
         /\ ret.err = ""
         /\ ret.rows = <<UserOf(a.rows[1])>>

\* C11: First runs one query, a Find whose LIMIT is 1 whatever limit was set
\* before; when the query fails First returns its error, when it returns no
\* row First returns "NOT FOUND", and in both cases nothing is written to the
\* destination; otherwise First returns nil and the destination is the one
\* row returned
C11_FirstOneRow ==
    last = "First" =>
        /\ Len(calls) = 1 /\ calls[1].op = "QueryRows"
        /\ "LIMIT" \in DOMAIN calls[1].clause.sql
        /\ calls[1].clause.sql["LIMIT"] = "LIMIT ?"
        /\ calls[1].clause.sqlVars["LIMIT"] = <<GoInt(1)>>
        /\ calls[1].vars # <<>> /\ calls[1].vars[Len(calls[1].vars)] = GoInt(1)
        /\ ret.err # "" => ret.rows = <<>>
        /\ calls[1].err # "" => ret.err = calls[1].err
        /\ calls[1].err = "" => FirstAnswered(Answer(calls[1]))

\* First returned one of the two rows of the table
C11_Witness ==
    /\ last = "First" /\ ret.err = "" /\ Len(ret.rows) = 1
    /\ calls[1].via = 0
    /\ "User" \in DOMAIN db.tables /\ Len(db.tables["User"].rows) = 2

\* the rows of table t that handle h of database D sees
RowsSeen(D, h, t) == IF t \in DOMAIN View(D, h) THEN View(D, h)[t].rows ELSE <<>>

\* rows b are rows a with column c set to v in every one of them
AllSet(a, b, c, v) ==
    /\ Len(b) = Len(a)
    /\ \A i \in 1..Len(a) : b[i] = [a[i] EXCEPT ![c] = v]

\* C12: with no WHERE entry in the clause set, an Update that succeeds sets
\* the column in every row the bound table held and a Delete that succeeds removes
\* every row, and each returns the number of rows the bound table held
C12_NoWhereAffectsAll ==
    [][ ( /\ last' \in {"Update", "Delete"}
          /\ "WHERE" \notin DOMAIN session.clause.sql
          /\ calls' # <<>> /\ calls'[1].err = "" )
        => /\ ret'.err = ""
           /\ ret'.n = Len(RowsSeen(db, calls'[1].via, session.refTable.Name))
           /\ last' = "Update" =>
                 AllSet(RowsSeen(db, calls'[1].via, session.refTable.Name), RowsSeen(db', calls'[1].via, session.refTable.Name),
                        "Age", GoInt(30))
           /\ last' = "Delete" => RowsSeen(db', calls'[1].via, session.refTable.Name) = <<>>
      ]_vars

\* an Update without WHERE changed both rows of the table
C12_Witness ==
    /\ last = "Update" /\ ret.err = "" /\ ret.n = 2
    /\ "WHERE" \notin DOMAIN calls[1].clause.sql
    /\ Len(RowsSeen(db, calls[1].via, "User")) = 2
    /\ \A i \in 1..2 : RowsSeen(db, calls[1].via, "User")[i]["Age"] = GoInt(30)

\* C24: after Commit or Rollback returned, the transaction handle of the
\* session is absent again, and no statement of the session is sent to a
\* transaction that is over
C24_HandleAbsentAfterEnd ==
    /\ (last \in {"Commit", "Rollback"} /\ ~ret.panic) => session.tx = 0
    /\ \A i \in Handed : calls[i].err # ErrTxDone

\* the operations that call Model: Model itself, Insert for each record, and
\* Find, hence First, for a new value of the element type
Binding == {"Model", "Insert", "Find", "First"}

\* C25: Clear and every executing operation leave the dialect, the connection
\* and the transaction handle of the session as they were, and the bound
\* schema too: the schema changes only in an operation that calls Model, and
\* then only for a value of another type than the bound model's
C25_ClearKeepsBinding ==
    [][ /\ session'.dialect = session.dialect
        /\ session'.db = session.db
        /\ last' # "Begin" => session'.tx = session.tx
        /\ last' \notin Binding => session'.refTable = session.refTable
        /\ (last' \in {"Model", "Find", "First"} /\ session.refTable # None
              /\ session'.refTable # session.refTable)
             => TypeOf(session'.refTable.Model) # TypeOf(session.refTable.Model)
      ]_vars

\* a statement with clauses was executed inside a transaction on a session
\* with a bound schema: the clauses are gone, the schema and the handle are not
C25_Witness ==
    /\ last \in {"Update", "Delete", "Count"} /\ Handed # {}
    /\ calls[1].clause # EmptyClause /\ calls[1].tx # 0
    /\ session.clause = EmptyClause
    /\ session.refTable # None /\ session.refTable.Name = "User"
    /\ session.tx = calls[1].tx

(***************************************************************************)
(* dialect: dialect.go, and geeorm.go: NewEngine                           *)
(***************************************************************************)
\* RegisterDialect(name, dialect): dialectsMap[name] = dialect
RegisterDialect(dialectsMap, name) == dialectsMap \cup {name}

\* GetDialect(name): the dialect and whether there is one
GetDialect(dialectsMap, name) ==
    [dialect |-> IF name \in dialectsMap THEN name ELSE "", ok |-> name \in dialectsMap]

ErrUnknownDriver == "sql: unknown driver (forgotten import?)"

\* sql.Open: the drivers are those registered with database/sql
Open(drivers, driverName, dataSourceName) ==
    IF driverName \in drivers THEN [db |-> dataSourceName, err |-> ""]
    ELSE [db |-> "", err |-> ErrUnknownDriver]

\* NewEngine after sql.Open and db.Ping succeeded
WithDialect(conn, dial) ==
    IF ~dial.ok THEN [e |-> Nil, err |-> "", log |-> "dialect Not Found"]
    ELSE [e |-> [db |-> conn, dialect |-> dial.dialect], err |-> "",
          log |-> "Connect database success"]

\* NewEngine after sql.Open returned o; ping is the error of db.Ping()
Opened(o, ping, dial) ==
    IF o.err # "" THEN [e |-> Nil, err |-> o.err, log |-> o.err]
    ELSE IF ping # "" THEN [e |-> Nil, err |-> ping, log |-> ping]
    ELSE WithDialect(o.db, dial)

NewEngine(drivers, dialectsMap, driverName, dataSourceName, ping) ==
    Opened(Open(drivers, driverName, dataSourceName), ping,
           GetDialect(dialectsMap, driverName))

(***************************************************************************)
(* The engine on one database: a second session of the same engine may    *)
(* drop the table first, then comes one Transaction or come Migrate calls  *)
(* in a row, and the second session looks at what they left                *)
(***************************************************************************)
MaxRuns == 2
MaxCall == 6

Nick == "Nick"

\* a table of an older User: without Age, with a column the type does not have
LegacyTable ==
    [cols |-> <<"Name", Nick>>, pk |-> {"Name"},
     rows |-> << [Name |-> Tom, Nick |-> GoStr("T")], [Name |-> Sam, Nick |-> GoStr("S")] >>]

LegacyDB == [tables |-> [User |-> LegacyTable], txs |-> <<>>]

\* a table of User with one column more
WideDB ==
    [tables |-> [User |-> [cols |-> <<"Name", "Age", Nick>>, pk |-> {"Name"},
                           rows |-> << [Name |-> Tom, Age |-> GoInt(18),
                                        Nick |-> GoStr("T")] >>]],
     txs |-> <<>>]

\* a table of User with none of the declared columns
NickDB ==
    [tables |-> [User |-> [cols |-> <<Nick>>, pk |-> {},
                           rows |-> << [Nick |-> GoStr("T")] >>]],
     txs |-> <<>>]

ZeroUser == Rec("User", TRUE, Zero("User"))

\* the callback of the tests: s.Model(&User{}).CreateTable(), s.Insert(&User{"Tom", 18})
CreateAndInsert == << [op |-> "CreateTable", value |-> ZeroUser],
                      [op |-> "Insert", value |-> UserTom] >>

Callbacks ==
    { [kind |-> "script", ops |-> CreateAndInsert, returns |-> e] :
         e \in {"nil", "last", "error", "panic"} }
    \cup { [kind |-> "script", ops |-> <<[op |-> "Insert", value |-> UserSam]>>,
            returns |-> "last"],
           [kind |-> "script", ops |-> <<>>, returns |-> "nil"] }

Failures == [at : 0..MaxCall, end : BOOLEAN]

\* history of the runs: how many there were, and of the latest its name, its
\* callback, the tables before it, the operations of the callback, how the
\* callback ended, the panic raised, what it returned, its driver calls, and
\* the run before it with its outcome
NoRun == [runs |-> 0, op |-> "none", fn |-> None, before |-> NoMap, log |-> <<>>,
          out |-> None, raised |-> "", ret |-> Ret, calls |-> <<>>, prev |-> <<"none", "none">>]

EInit ==
    /\ session = NewSession
    /\ db \in {EmptyDB, UserDB, LegacyDB, WideDB, NickDB}
    /\ last = "New"
    /\ ret = Ret
    /\ calls = <<>>
    /\ hist = NoRun
    /\ given = NoMap
    /\ firstSet = "none"
    /\ built = None

\* how a run ended: "nil", "error" or "panic"
Outcome(r) == IF r.panic THEN "panic" ELSE IF r.err # "" THEN "error" ELSE "nil"

\* a run of the engine, t being what it left
Run(name, fn, t) ==
    /\ db' = t.d
    /\ last' = name
    /\ ret' = t.ret
    /\ calls' = t.calls
    /\ hist' = [runs |-> hist.runs + 1, op |-> name, fn |-> fn, before |-> db.tables,
                log |-> t.log, out |-> t.fn, raised |-> t.raised,
                ret |-> t.ret, calls |-> t.calls,
                prev |-> IF last \in {"Transaction", "Migrate"}
                         THEN <<last, Outcome(ret)>> ELSE <<"none", "none">>]
    /\ UNCHANGED session
    /\ Frame

DoTransaction ==
    /\ last \in {"New", "DropTable"}
    /\ \E fn \in Callbacks : \E F \in Failures :
          Run("Transaction", fn, Transaction(db, fn, F))

DoMigrate ==
    /\ last \in {"New", "DropTable", "Migrate"}
    /\ hist.runs < MaxRuns
    /\ \E F \in Failures :
          Run("Migrate", [kind |-> "migrate", value |-> ZeroUser], Migrate(db, ZeroUser, F))

\* an operation of the second session, next to the runs
Outer(name, r) ==
    /\ session' = r.s
    /\ db' = r.d
    /\ last' = name
    /\ ret' = r.ret
    /\ calls' = r.calls
    /\ UNCHANGED hist
    /\ Frame

\* s.Model(&User{}).DropTable()
OuterDropTable ==
    /\ last = "New"
    /\ \E fail \in BOOLEAN : Outer("DropTable", DropTable(Model(session, ZeroUser), db, fail))

\* s.Model(&User{}).HasTable()
OuterHasTable ==
    /\ last \in {"Transaction", "Migrate"}
    /\ \E fail \in BOOLEAN : Outer("HasTable", HasTable(Model(session, ZeroUser), db, fail))

\* s.First(&User{})
OuterFirst ==
    /\ last \in {"Transaction", "Migrate"}
    /\ \E fail \in BOOLEAN : Outer("First", SessionFirst(session, db, "User", fail))

ENext == DoTransaction \/ DoMigrate \/ OuterDropTable \/ OuterHasTable \/ OuterFirst

SpecEngine == EInit /\ [][ENext]_vars

(***************************************************************************)
(* Properties of the engine                                                *)
(***************************************************************************)
\* the latest run got past Begin
RunBegan == hist.op # "none" /\ hist.calls[1].err = ""

\* the last driver call of the latest run
LastCall == hist.calls[Len(hist.calls)]

\* the callback of the latest run created the table and inserted the row
CreatedAndInserted ==
    /\ hist.op = "Transaction" /\ RunBegan
    /\ hist.fn.ops = CreateAndInsert
    /\ Len(hist.log) = 2 /\ hist.log[1].err = "" /\ hist.log[2].err = ""

\* C3: once Begin succeeded, Transaction calls exactly one of Commit and
\* Rollback on the transaction it opened, as the last thing it does: Commit
\* if and only if f returned nil without a panic, Rollback if f returned an
\* error, Rollback and then the panic of f again if f panicked; the
\* transaction is over afterwards
C3_ExactlyOneEnd ==
    RunBegan =>
        /\ {i \in 1..Len(hist.calls) : hist.calls[i].op \in {"Commit", "Rollback"}}
              = {Len(hist.calls)}
        /\ LastCall.via = Len(db.txs) /\ LastCall.via = LastCall.tx
        /\ db.txs[LastCall.via].state = "done"
        /\ LastCall.op = "Commit" <=> (hist.out.err = "" /\ ~hist.out.panic)
        /\ hist.out.panic <=> hist.ret.panic
        /\ hist.ret.panic => hist.raised = hist.out.p /\ hist.raised # ""
        /\ (hist.fn.kind = "script" /\ hist.fn.returns = "panic") => hist.raised = "boom"

\* f panicked, and the Rollback before the panic was raised again failed
C3_Witness ==
    /\ last = "Transaction" /\ RunBegan
    /\ hist.out.panic /\ ret.panic
    /\ LastCall.op = "Rollback" /\ LastCall.err # ""

\* C4: a callback that creates the table, inserts a row and returns an error
\* makes Transaction return an error and leaves the database as it was: the
\* table does not exist and the second session finds neither it nor the row
C4_RollbackLeavesNothing ==
    (CreatedAndInserted /\ hist.out.err # "" /\ ~hist.out.panic) =>
        /\ hist.ret.err # ""
        /\ db.tables = hist.before
        /\ "User" \notin DOMAIN db.tables
        /\ (last = "HasTable" /\ calls[1].err = "") => ~ret.has
        /\ last = "First" => ret.rows = <<>> /\ ret.err # ""

\* the second session asks for the table after the rollback
C4_Witness ==
    /\ CreatedAndInserted /\ hist.out.err # "" /\ ~hist.out.panic
    /\ last = "HasTable" /\ calls[1].err = "" /\ ~ret.has
    /\ hist.log[2].op = "Insert"

\* the row the callback inserted, as First returns it
TomFound == Rec("User", FALSE, UserTom.val)

\* C5: a callback that creates the table, inserts a row and returns nil
\* makes Transaction return nil, and afterwards the table exists and First
\* on the second session returns the row
C5_CommitMakesVisible ==
    (CreatedAndInserted /\ hist.out.err = "" /\ ~hist.out.panic) =>
        /\ hist.ret.err = ""
        /\ "User" \in DOMAIN db.tables
        /\ (last = "First" /\ calls[1].err = "") => ret.err = "" /\ ret.rows = <<TomFound>>

\* C5, with the Commit taken into account: Transaction returns what Commit
\* returned; when that is nil the table exists and First on the second
\* session returns the row, and when Commit failed nothing of the callback
\* is in the database
C5_CommitMakesVisibleUnlessItFails ==
    (CreatedAndInserted /\ hist.out.err = "" /\ ~hist.out.panic) =>
        /\ LastCall.op = "Commit" /\ hist.ret.err = LastCall.err
        /\ hist.ret.err = "" =>
              /\ "User" \in DOMAIN db.tables
              /\ db.tables["User"].rows = <<RowOf(UserTom)>>
              /\ (last = "First" /\ calls[1].err = "") =>
                    ret.err = "" /\ ret.rows = <<TomFound>>
        /\ hist.ret.err # "" => db.tables = hist.before

\* First on the second session returned the committed row
C5_Witness ==
    /\ CreatedAndInserted /\ hist.out.err = "" /\ hist.ret.err = ""
    /\ last = "First" /\ ret.rows = <<TomFound>>

\* the columns of table User, none when there is no such table
Columns(tables) ==
    IF "User" \in DOMAIN tables
    THEN {tables["User"].cols[i] : i \in 1..Len(tables["User"].cols)} ELSE {}

\* the declared columns of User
Declared == {Parse(ZeroUser).FieldNames[i] : i \in 1..Len(Parse(ZeroUser).FieldNames)}

\* C6: when a step of Migrate fails, the transaction is rolled back, Migrate
\* returns an error and the columns of the table are those before the call
C6_FailedStepRollsBack ==
    (hist.op = "Migrate" /\ RunBegan
        /\ \E i \in 2..(Len(hist.calls) - 1) : hist.calls[i].err # "") =>
        /\ LastCall.op = "Rollback"
        /\ hist.ret.err # "" /\ ~hist.ret.panic
        /\ Columns(db.tables) = Columns(hist.before)

\* C7: a successful Migrate of a table that lacks a declared column and has
\* a column the type does not declare leaves the table, under its name, with
\* exactly the declared columns, and every row as it was in the columns that
\* are declared and were there before
C7_MigrateAddsAndDrops ==
    (hist.op = "Migrate" /\ hist.ret.err = "" /\ ~hist.ret.panic
        /\ "User" \in DOMAIN hist.before
        /\ Declared \ Columns(hist.before) # {}
        /\ Columns(hist.before) \ Declared # {}) =>
        /\ DOMAIN db.tables = DOMAIN hist.before
        /\ Columns(db.tables) = Declared
        /\ Len(db.tables["User"].cols) = Cardinality(Declared)
        /\ Len(db.tables["User"].rows) = Len(hist.before["User"].rows)
        /\ \A i \in 1..Len(hist.before["User"].rows) :
              \A c \in Declared \cap Columns(hist.before) :
                  db.tables["User"].rows[i][c] = hist.before["User"].rows[i][c]

\* the table of the older User migrated, its two rows kept
C7_Witness ==
    /\ last = "Migrate" /\ hist.ret.err = "" /\ ~hist.ret.panic
    /\ hist.before = LegacyDB.tables
    /\ db.tables["User"].cols = <<"Name", "Age">>
    /\ Len(db.tables["User"].rows) = 2
    /\ \E i \in 1..Len(calls) : calls[i].op = "Exec" /\ Len(Statements(calls[i].sql)) = 3

\* the statements a call handed to the driver, recognised
Issued(call) ==
    {ParseStmt(Statements(call.sql)[k]).op : k \in 1..Len(Statements(call.sql))}

\* C8: a Migrate right after a Migrate that succeeded issues no ALTER TABLE
\* and no statement of the rebuild, and leaves the tables as they were
C8_SecondMigrateChangesNothing ==
    (hist.op = "Migrate" /\ hist.prev = <<"Migrate", "nil">>) =>
        /\ \A i \in 1..Len(hist.calls) :
              hist.calls[i].op \in {"Exec", "QueryRow", "QueryRows"} =>
                  Issued(hist.calls[i]) \cap {"addColumn", "createAs", "drop", "rename"} = {}
        /\ db.tables = hist.before

\* a second Migrate that ran to its Commit after the first rebuilt the table
C8_Witness ==
    /\ last = "Migrate" /\ hist.prev = <<"Migrate", "nil">>
    /\ hist.ret.err = "" /\ ~hist.ret.panic
    /\ Len(calls) = 4 /\ calls[3].op = "QueryRows" /\ calls[4].op = "Commit"
    /\ "User" \in DOMAIN db.tables /\ db.tables["User"].pk = {}

\* statements recognised, in their order
Recognised(stmts) == [k \in 1..Len(stmts) |-> ParseStmt(stmts[k])]

\* the statements the calls of the latest run handed to Exec, recognised
ExecStmts ==
    [i \in 1..Len(hist.calls) |->
       IF hist.calls[i].op = "Exec" THEN Recognised(Statements(hist.calls[i].sql))
       ELSE <<>>]

\* what kinds of statements ps are
OpsIn(ps) == [k \in 1..Len(ps) |-> ps[k].op]

\* the Exec calls of the latest run, and among the statements P of its
\* calls those that add a column and those that rebuild the table
Execs == {i \in 1..Len(hist.calls) : hist.calls[i].op = "Exec"}
Adds(P) == {i \in Execs : OpsIn(P[i]) = <<"addColumn">>}
Rebuilds(P) == {i \in Execs : OpsIn(P[i]) = <<"createAs", "drop", "rename">>}

\* Migrate found the table and fetched its columns
FoundPresent ==
    /\ hist.op = "Migrate" /\ RunBegan
    /\ Len(hist.log) >= 2 /\ hist.log[2].op = "QueryRows" /\ hist.log[2].err = ""

\* the declared columns the table lacked before the run
Missing == Declared \ Columns(hist.before)

\* the statements ps copy the declared columns of User to tmp_User, drop
\* User and rename tmp_User to User
RebuildsUser(ps) ==
    /\ ps[1] = [op |-> "createAs", table |-> "tmp_User",
                cols |-> Parse(ZeroUser).FieldNames, from |-> "User"]
    /\ ps[2] = [op |-> "drop", table |-> "User", ifExists |-> FALSE]
    /\ ps[3] = [op |-> "rename", table |-> "tmp_User", to |-> "User"]

\* the order of the statements P of the calls, A being the calls that add a
\* column and R those that rebuild
Ordered(P, A, R) ==
    /\ Execs = A \cup R
    /\ Cardinality(R) <= 1
    /\ \A r \in R :
          /\ A = {i \in Execs : i < r}
          /\ Cardinality(A) = Cardinality(Missing)
          /\ \A a \in A : hist.calls[a].err = ""
          /\ RebuildsUser(P[r])
    /\ (Cardinality(A) = Cardinality(Missing) /\ \A a \in A : hist.calls[a].err = "")
          => R # {}
    /\ \A i \in 1..Len(hist.calls) :
          hist.calls[i].op = "Commit" =>
              R # {} /\ \A r \in R : r < i /\ hist.calls[r].err = ""

\* none of the statements P is one of the rebuild
NoRebuild(P) ==
    \A i \in Execs : \A k \in 1..Len(P[i]) : P[i][k].op \notin {"createAs", "drop", "rename"}

\* the order of Migrate in the statements P
MigrateOrder(P) ==
    IF Columns(hist.before) \ Declared = {} THEN NoRebuild(P)
    ELSE Ordered(P, Adds(P), Rebuilds(P))

\* C16: when Migrate found the table and the table has columns the type does
\* not declare, every ALTER TABLE ADD COLUMN comes first, one for each
\* missing column, then the temporary table is created from a SELECT of the
\* declared columns, then the table is dropped, then the temporary table is
\* renamed, and Commit comes only after that; when the table has no such
\* column, none of the three statements is issued
C16_MigrateOrder == FoundPresent => MigrateOrder(ExecStmts)

\* calls 4 and 5 add a column and call 6 rebuilds
TwoAddsThenRebuild(P) == Adds(P) = {4, 5} /\ Rebuilds(P) = {6}

\* two columns added, then the rebuild, then the Commit
C16_Witness ==
    /\ last = "Migrate" /\ FoundPresent
    /\ hist.before = NickDB.tables
    /\ Len(hist.calls) = 7
    /\ hist.calls[7].op = "Commit" /\ hist.calls[7].err = ""
    /\ TwoAddsThenRebuild(ExecStmts)
    /\ db.tables["User"].cols = <<"Name", "Age">>

\* the statements ps are one CREATE TABLE User with the declared columns,
\* each with its name and type, in the order of declaration
CreatesUser(ps) ==
    /\ Len(ps) = 1
    /\ ps[1].op = "create" /\ ps[1].table = "User"
    /\ Len(ps[1].defs) = Len(Parse(ZeroUser).Fields)
    /\ \A k \in 1..Len(ps[1].defs) :
          /\ Len(ps[1].defs[k]) >= 2
          /\ ps[1].defs[k][1] = Parse(ZeroUser).Fields[k].Name
          /\ ps[1].defs[k][2] = Parse(ZeroUser).Fields[k].Type

\* of the statements P of the calls, the third call alone changes the
\* schema, and it creates the table
OnlyCreates(P) == Execs = {3} /\ CreatesUser(P[3])

\* C17: when the table does not exist, Migrate hands the driver one
\* schema-changing statement, the CREATE TABLE of the declared columns, and
\* no ALTER TABLE and no statement of the rebuild; when no call of the run
\* fails in the driver, Commit follows it, Migrate returns nil, and the
\* table exists with exactly the declared columns
C17_MigrateCreates ==
    (hist.op = "Migrate" /\ RunBegan /\ "User" \notin DOMAIN hist.before) =>
        /\ OnlyCreates(ExecStmts)
        /\ (\A i \in 1..Len(hist.calls) : hist.calls[i].err = "") =>
              /\ Len(hist.calls) = 4 /\ hist.calls[4].op = "Commit"
              /\ hist.ret.err = "" /\ ~hist.ret.panic
              /\ "User" \in DOMAIN db.tables
              /\ db.tables["User"].cols = Parse(ZeroUser).FieldNames
              /\ db.tables["User"].rows = <<>>

\* Migrate on the empty database created the table and committed
C17_Witness ==
    /\ last = "Migrate" /\ hist.before = EmptyDB.tables
    /\ hist.ret.err = "" /\ Len(calls) = 4 /\ calls[4].op = "Commit"
    /\ calls[3].op = "Exec" /\ calls[3].err = ""
    /\ db.tables["User"].cols = <<"Name", "Age">>

\* C18: once its query succeeded, Find returns with the cursor of the query
\* closed, after all rows were scanned and also after a row failed to scan
C18_FindClosesCursor ==
    (last \in {"Find", "First"} /\ calls # <<>> /\ calls[1].err = "") => ret.closed

\* C22: Transaction returns the error of the callback when the callback
\* returned one, also when the Rollback that follows fails, and returns the
\* error of Commit when the callback returned nil
C22_CallbackErrorKept ==
    (hist.op = "Transaction" /\ RunBegan /\ ~hist.out.panic) =>
        /\ hist.out.err # "" => LastCall.op = "Rollback" /\ hist.ret.err = hist.out.err
        /\ hist.out.err = "" => LastCall.op = "Commit" /\ hist.ret.err = LastCall.err

\* the callback returned an error of its own and the Rollback failed with
\* the error of the driver
C22_Witness ==
    /\ hist.op = "Transaction" /\ RunBegan
    /\ hist.out.err = "Error"
    /\ LastCall.op = "Rollback" /\ LastCall.err = ErrDriver
    /\ hist.ret.err = "Error"

(***************************************************************************)
(* A record inserted and read back: the table of the record's type exists, *)
(* empty or holding another record; the caller may begin a transaction,    *)
(* inserts the record, sets Where on its key and calls First               *)
(***************************************************************************)
\* the records of the round trip: User as the tests declare it, by pointer
\* and by value, and a type with an unexported and an embedded field
RoundRecords ==
    { UserTom, UserSam,
      Rec("User", FALSE, [Name |-> GoStr(""), Age |-> GoInt(0)]),
      Rec("User", TRUE, [Name |-> Sam, Age |-> GoInt(30)]),
      AccountBob,
      Rec("Account", TRUE,
          [ID |-> GoInt(2), secret |-> GoStr(""), User |-> Null,
           Email |-> GoStr(""), Active |-> <<"bool", FALSE>>]) }

\* the database with the table of r's type, as CreateTable makes it
Made(r) == CreateTable(Model(NewSession, r), EmptyDB, FALSE).d

\* that database with record q in the table
Seeded(r, q) == Insert(NewSession, Made(r), <<q>>, FALSE).d

\* the key of r: the first column of its schema
KeyOf(r) == Parse(r).FieldNames[1]

RInit ==
    /\ session = NewSession
    /\ hist \in {[r |-> r, inserted |-> FALSE] : r \in RoundRecords}
    /\ db \in {Made(hist.r)} \cup {Seeded(hist.r, q) : q \in {x \in RoundRecords : x.type = hist.r.type}}
    /\ last = "New"
    /\ ret = Ret
    /\ calls = <<>>
    /\ given = NoMap
    /\ firstSet = "none"
    /\ built = None

RBegin ==
    /\ last = "New"
    /\ \E fail \in BOOLEAN : Outer("Begin", Begin(session, db, fail))

\* s.Insert(r)
Inserted(r) ==
    /\ session' = r.s
    /\ db' = r.d
    /\ last' = "Insert"
    /\ ret' = r.ret
    /\ calls' = r.calls
    /\ hist' = [hist EXCEPT !.inserted = (r.ret.err = "" /\ ~r.ret.panic)]
    /\ Frame

RInsert ==
    /\ last \in {"New", "Begin"}
    /\ \E fail \in BOOLEAN : Inserted(Insert(session, db, <<hist.r>>, fail))

\* s.Where("<key> = ?", r.<key>)
RWhere ==
    /\ last = "Insert"
    /\ session' = Where(session, KeyOf(hist.r) \o " = ?", <<hist.r.val[KeyOf(hist.r)]>>)
    /\ last' = "Where"
    /\ ret' = Ret
    /\ calls' = <<>>
    /\ UNCHANGED <<db, hist>>
    /\ Frame

\* s.First(dest), dest of r's type
RFirst ==
    /\ last = "Where"
    /\ \E fail \in BOOLEAN : Outer("First", SessionFirst(session, db, hist.r.type, fail))

RNext == RBegin \/ RInsert \/ RWhere \/ RFirst

SpecRound == RInit /\ [][RNext]_vars

\* First came after an Insert that succeeded and a Where on the key, and its
\* query did not fail in the driver
ReadBack ==
    /\ last = "First" /\ hist.inserted
    /\ calls[1].err = ""

\* C13: after Insert(r) succeeded, Where on r's key and First(dest) return
\* nil and dest equals r field for field
C13_RoundTrip ==
    ReadBack =>
        /\ ret.err = ""
        /\ Len(ret.rows) = 1
        /\ ret.rows[1].val = hist.r.val

\* C13, for the fields that are columns: after Insert(r) succeeded, Where on
\* r's key and First(dest) return nil, dest equals r in every exported,
\* non-embedded field, and every other field of dest has its zero value
C13_RoundTripOfColumns ==
    ReadBack =>
        /\ ret.err = ""
        /\ Len(ret.rows) = 1
        /\ ret.rows[1].type = hist.r.type
        /\ \A f \in DOMAIN hist.r.val :
              ret.rows[1].val[f] =
                 IF f \in DOMAIN Parse(hist.r).fieldMap THEN hist.r.val[f]
                 ELSE Zero(hist.r.type)[f]

\* a record with a value in an unexported field was read back inside the
\* transaction that inserted it, next to another record in the table
C13_Witness ==
    /\ ReadBack /\ ret.err = ""
    /\ hist.r = AccountBob
    /\ ret.rows[1].val["Email"] = Bob /\ ret.rows[1].val["secret"] = GoStr("")
    /\ session.tx # 0
    /\ Len(RowsSeen(db, session.tx, "Account")) = 2

(***************************************************************************)
(* Parse on its own: a struct type of up to MaxFields fields, parsed from  *)
(* a value or from a pointer to one                                        *)
(***************************************************************************)
MaxFields == 3

\* the fields the struct types are made of: exported ones with and without
\* a tag, an unexported one, an embedded one, one of a kind the dialect has
\* no type for
FieldPool ==
    { Fld("Name", "string", FALSE, TRUE, "PRIMARY KEY"),
      Fld("Age", "int", FALSE, FALSE, ""),
      Fld("At", "time.Time", FALSE, TRUE, ""),
      Fld("secret", "string", FALSE, FALSE, ""),
      Fld("Base", "struct", TRUE, FALSE, ""),
      Fld("Data", "map", FALSE, FALSE, "") }

\* the field lists of at most n fields, no name twice
FieldLists(n) ==
    UNION { {x \in [1..k -> FieldPool] :
                \A i, j \in 1..k : i # j => x[i].Name # x[j].Name} : k \in 0..n }

PInit ==
    /\ session = NewSession
    /\ db = EmptyDB
    /\ last = "New"
    /\ ret = Ret
    /\ calls = <<>>
    /\ hist \in {[fields |-> fs] : fs \in FieldLists(MaxFields)}
    /\ given = NoMap
    /\ firstSet = "none"
    /\ built = None

\* schema.Parse(dest, d)
PParse ==
    /\ last = "New"
    /\ \E ptr \in BOOLEAN :
          built' = ParseType(Rec("T", ptr, <<>>), hist.fields)
    /\ last' = "Parse"
    /\ UNCHANGED <<session, db, ret, calls, hist, given, firstSet>>

PNext == PParse

SpecParse == PInit /\ [][PNext]_vars

\* the positions of the exported, non-embedded fields
Kept == {i \in 1..Len(hist.fields) :
            /\ ~hist.fields[i].Anonymous
            /\ SubSeq(hist.fields[i].Name, 1, 1) \in Upper}

\* the k-th of them
KeptAt(k) == CHOOSE i \in Kept : Cardinality({j \in Kept : j < i}) = k - 1

\* the kinds sqlite3 has a type for
Mapped == {"bool", "int", "int8", "int16", "int32", "uint", "uint8", "uint16", "uint32",
           "int64", "uint64", "float32", "float64", "string", "array", "slice",
           "time.Time"}

\* the schema has one column for each exported, non-embedded field, in the
\* order of declaration, FieldNames names them in that order, and fieldMap
\* has their names as keys, each with its own column
ColumnsAsDeclared ==
    /\ DOMAIN built = {"Model", "Name", "Fields", "FieldNames", "fieldMap"}
    /\ Len(built.Fields) = Cardinality(Kept)
    /\ Len(built.FieldNames) = Cardinality(Kept)
    /\ \A k \in 1..Len(built.Fields) :
          /\ built.Fields[k].Name = hist.fields[KeptAt(k)].Name
          /\ built.FieldNames[k] = built.Fields[k].Name
          /\ built.fieldMap[built.Fields[k].Name] = built.Fields[k]
    /\ DOMAIN built.fieldMap = {built.Fields[k].Name : k \in 1..Len(built.Fields)}

\* C14: for every record type, Parse returns a schema with one column for
\* each exported, non-embedded field, in declaration order, with FieldNames
\* and the name lookup in step with the columns
C14_ParseColumns == last = "Parse" => ColumnsAsDeclared

\* C14, for the types the dialect can map: when every exported, non-embedded
\* field has a kind the dialect has a type for, Parse returns that schema;
\* when one has not, Parse panics and returns no schema
C14_ParseColumnsOfMappedKinds ==
    last = "Parse" =>
        IF \A i \in Kept : hist.fields[i].Kind \in Mapped
        THEN ColumnsAsDeclared
        ELSE DOMAIN built = {"panic"}

\* a type with an unexported field between its two exported fields
C14_Witness ==
    /\ last = "Parse" /\ Len(hist.fields) = 3 /\ Kept = {1, 3}
    /\ \E i \in 1..3 : hist.fields[i].Name = "secret"
    /\ ColumnsAsDeclared
    /\ built.FieldNames = <<"Name", "Age">>

(***************************************************************************)
(* The hooks on their own: a session, bound or not, on which CallMethod is *)
(* called with and without a value                                         *)
(***************************************************************************)
MaxHooks == 2

HookValues ==
    { Rec("User", TRUE, Zero("User")),
      Rec("Hooked", TRUE, Zero("Hooked")),
      Rec("Hooked", FALSE, Zero("Hooked")) }

HookNames == {"BeforeInsert", "AfterInsert", "AfterQuery", "BeforeDelete"}

\* the calls of CallMethod so far and the latest of them: its arguments,
\* whether a schema was bound, and what it left
NoHook == [n |-> 0, method |-> "", value |-> Nil, bound |-> FALSE,
           out |-> Hooked(FALSE, Nil, <<>>)]

HInit ==
    /\ session = NewSession
    /\ db = EmptyDB
    /\ last = "New"
    /\ ret = Ret
    /\ calls = <<>>
    /\ hist = NoHook
    /\ given = NoMap
    /\ firstSet = "none"
    /\ built = None

\* s.Model(value)
HModel ==
    /\ \E v \in HookValues : session' = Model(session, v)
    /\ last' = "Model"
    /\ ret' = Ret
    /\ UNCHANGED <<db, calls, hist>>
    /\ Frame

\* s.CallMethod(method, value)
HCall ==
    /\ hist.n < MaxHooks
    /\ \E method \in HookNames : \E value \in HookValues \cup {Nil} :
          /\ hist' = [n |-> hist.n + 1, method |-> method, value |-> value,
                      bound |-> ~NoRefTable(session),
                      out |-> CallMethod(session, method, value)]
          /\ ret' = [Ret EXCEPT !.panic = CallMethod(session, method, value).panic]
    /\ last' = "CallMethod"
    /\ UNCHANGED <<session, db, calls>>
    /\ Frame

HNext == HModel \/ HCall

SpecHooks == HInit /\ [][HNext]_vars

\* C15: CallMethod looks the method up on the value when one is given and
\* else on the model of the bound schema, does nothing when there is no such
\* method, only logs the error a method returns, and returns normally in
\* every one of these cases, whatever the state of the session, as long as
\* there is a value or a bound schema to look the method up on
C15_CallMethodReturns ==
    last = "CallMethod" =>
        /\ (hist.value # Nil \/ hist.bound) => ~ret.panic
        /\ hist.out.on # Nil =>
              hist.out.on = (IF hist.value # Nil THEN hist.value ELSE session.refTable.Model)
        /\ (hist.value # Nil /\ ~IsValid(hist.value, hist.method)) =>
              hist.out = Hooked(FALSE, Nil, <<>>)

(***************************************************************************)
(* The schema a session binds: Model, and the Model calls of Insert and    *)
(* Find                                                                    *)
(***************************************************************************)
MaxBinds == 3

\* the arguments of Model: pointers to User and to Account, and a User value
BindValues == { UserTom, UserSam, AccountBob, Rec("User", FALSE, UserTom.val) }

\* the records of one Insert
BindLists == { <<UserTom>>, <<UserSam, UserTom>>, <<UserSam, AccountBob>>, <<AccountBob>> }

\* the element types of the slices Find fills
BindTypes == {"User", "Account"}

\* the operations so far and the latest of them: the schema bound before it
\* and the arguments of its Model calls in their order
NoBind == [n |-> 0, before |-> None, args |-> <<>>]

Bind(args) == [n |-> hist.n + 1, before |-> session.refTable, args |-> args]

MInit ==
    /\ session = NewSession
    /\ db \in {EmptyDB, UserDB}
    /\ last = "New"
    /\ ret = Ret
    /\ calls = <<>>
    /\ hist = NoBind
    /\ given = NoMap
    /\ firstSet = "none"
    /\ built = None

\* an operation of the session that made the Model calls args and ended as r
Bound(name, r, args) ==
    /\ hist.n < MaxBinds
    /\ session' = r.s
    /\ db' = r.d
    /\ last' = name
    /\ ret' = r.ret
    /\ calls' = r.calls
    /\ hist' = Bind(args)
    /\ Frame

\* s.Model(value)
MModel ==
    \E v \in BindValues :
        Bound("Model", [s |-> Model(session, v), d |-> db, ret |-> Ret, calls |-> <<>>], <<v>>)

\* s.Insert(values...)
MInsert ==
    \E values \in BindLists : \E fail \in BOOLEAN :
        Bound("Insert", Insert(session, db, values, fail), values)

\* s.Find(&values): Find binds a new zero value of the element type
MFind ==
    \E destType \in BindTypes : \E fail \in BOOLEAN :
        Bound("Find", Find(session, db, destType, fail),
              <<Rec(destType, FALSE, Zero(destType))>>)

MNext == MModel \/ MInsert \/ MFind

SpecBind == MInit /\ [][MNext]_vars

\* a Model call derives a schema when none is bound or when the type of its
\* argument is not the type of the model the bound schema came from
Rederives(bound, value) == bound = None \/ TypeOf(value) # TypeOf(bound.Model)

\* the schema bound after Model calls with the arguments args
RECURSIVE BoundAfter(_, _)
BoundAfter(bound, args) ==
    IF args = <<>> THEN bound
    ELSE BoundAfter(IF Rederives(bound, Head(args)) THEN Parse(Head(args)) ELSE bound,
                    Tail(args))

\* table is the schema of the type of value
SchemaOfType(table, value) ==
    /\ table # None
    /\ TypeOf(table.Model) = TypeOf(value)
    /\ table.Name = Parse(value).Name
    /\ table.Fields = Parse(value).Fields
    /\ table.FieldNames = Parse(value).FieldNames
    /\ table.fieldMap = Parse(value).fieldMap

\* C19: after the Model calls of an operation (Model itself, or the calls
\* inside Insert and Find) the bound schema is the schema of the type of the
\* latest argument; each call derives the schema anew exactly when no schema
\* was bound or the argument's type differs from the type of the bound
\* schema's model, and otherwise keeps the bound schema as it is
C19_ModelBinds ==
    hist.args # <<>> =>
        /\ SchemaOfType(session.refTable, hist.args[Len(hist.args)])
        /\ session.refTable = BoundAfter(hist.before, hist.args)

\* an Insert on a session bound to Tom keeps Tom's schema for Sam and derives
\* the schema of Account for Bob
C19_Witness ==
    /\ last = "Insert"
    /\ hist.before # None
    /\ hist.before.Model = UserTom
    /\ hist.args = <<UserSam, AccountBob>>
    /\ session.refTable.Model = AccountBob

(***************************************************************************)
(* The clause entries of Where, Limit and OrderBy over the operations that *)
(* follow them                                                             *)
(***************************************************************************)
MaxOps == 3

\* the operation before the latest one: its name, the statements it handed
\* to the driver and what it returned
NoOps == [n |-> 0, prev |-> [op |-> "New", calls |-> <<>>, ret |-> Ret]]

Past == [n |-> hist.n + 1, prev |-> [op |-> last, calls |-> calls, ret |-> ret]]

KInit ==
    /\ session \in { NewSession, Model(NewSession, Rec("User", TRUE, Zero("User"))) }
    /\ db = UserDB
    /\ last = "New"
    /\ ret = Ret
    /\ calls = <<>>
    /\ hist = NoOps
    /\ given = NoMap
    /\ firstSet = "none"
    /\ built = None

\* an operation that leaves the session as S and hands nothing to the driver
KSets(name, S) ==
    /\ hist.n < MaxOps
    /\ session' = S
    /\ last' = name
    /\ ret' = Ret
    /\ calls' = <<>>
    /\ hist' = Past
    /\ UNCHANGED db
    /\ Frame

\* an operation that ended as r
KRan(name, r) ==
    /\ hist.n < MaxOps
    /\ session' = r.s
    /\ db' = r.d
    /\ last' = name
    /\ ret' = r.ret
    /\ calls' = r.calls
    /\ hist' = Past
    /\ Frame

KModel == KSets("Model", Model(session, Rec("User", TRUE, Zero("User"))))

KRaw == KSets("Raw", Raw(session, "SELECT Name FROM User", <<>>))

KWhere == KSets("Where", Where(session, "Name = ?", <<Sam>>))

KLimit == \E num \in LimitInputs : KSets("Limit", Limit(session, num))

KOrderBy == KSets("OrderBy", OrderBy(session, "Age DESC"))

KExec == \E fail \in BOOLEAN : KRan("Exec", Exec(session, db, fail))

KQueryRow == \E fail \in BOOLEAN : KRan("QueryRow", QueryRow(session, db, fail))

KQueryRows == \E fail \in BOOLEAN : KRan("QueryRows", QueryRows(session, db, fail))

KInsert == \E fail \in BOOLEAN : KRan("Insert", Insert(session, db, <<UserSam>>, fail))

KFind == \E fail \in BOOLEAN : KRan("Find", Find(session, db, "User", fail))

KFirst == \E fail \in BOOLEAN : KRan("First", SessionFirst(session, db, "User", fail))

KUpdate ==
    \E fail \in BOOLEAN : \E m \in UpdateInputs : KRan("Update", Update(session, db, m, fail))

KDelete == \E fail \in BOOLEAN : KRan("Delete", Delete(session, db, fail))

KCount == \E fail \in BOOLEAN : KRan("Count", Count(session, db, fail))

KCreateTable == \E fail \in BOOLEAN : KRan("CreateTable", CreateTable(session, db, fail))

KDropTable == \E fail \in BOOLEAN : KRan("DropTable", DropTable(session, db, fail))

KHasTable == \E fail \in BOOLEAN : KRan("HasTable", HasTable(session, db, fail))

KNext ==
    \/ KModel \/ KRaw \/ KWhere \/ KLimit \/ KOrderBy
    \/ KExec \/ KQueryRow \/ KQueryRows
    \/ KInsert \/ KFind \/ KFirst \/ KUpdate \/ KDelete \/ KCount
    \/ KCreateTable \/ KDropTable \/ KHasTable

SpecClause == KInit /\ [][KNext]_vars

\* the entries Where, OrderBy and Limit set
Conditions == {"WHERE", "ORDERBY", "LIMIT"}

\* whether the text holds the word
Mentions(text, word) ==
    \E i \in 1..Len(text) :
        i + Len(word) - 1 <= Len(text) /\ SubSeq(text, i, i + Len(word) - 1) = word

\* the statement has no WHERE, ORDER BY or LIMIT fragment
Unconditional(call) ==
    /\ DOMAIN call.clause.sql \cap Conditions = {}
    /\ ~Mentions(call.sql, "WHERE")
    /\ ~Mentions(call.sql, "ORDER BY")
    /\ ~Mentions(call.sql, "LIMIT")

\* the operation before the latest one handed a statement to the driver
Followed ==
    /\ hist.prev.op \in Executing
    /\ \E i \in 1..Len(hist.prev.calls) :
          hist.prev.calls[i].op \in {"Exec", "QueryRow", "QueryRows"}

\* C20: an entry set by Where, Limit or OrderBy is gone after the next
\* operation that executes a statement, so a Find, Update, Delete or Count
\* that comes right after an executing operation runs its statement without
\* a WHERE, ORDER BY or LIMIT fragment
C20_EntryServesOneStatement ==
    /\ (last \in Executing /\ Handed # {}) =>
          DOMAIN session.clause.sql \cap Conditions = {}
    /\ (last \in {"Find", "Update", "Delete", "Count"} /\ Handed # {} /\ Followed) =>
          \A i \in Handed : Unconditional(calls[i])

\* a Find with the condition Name = Sam found no row, and the Find after it
\* ran without the condition and found Tom
C20_Witness ==
    /\ hist.prev.op = "Find" /\ hist.prev.ret.err = "" /\ hist.prev.ret.rows = <<>>
    /\ Len(hist.prev.calls) = 1
    /\ "WHERE" \in DOMAIN hist.prev.calls[1].clause.sql
    /\ last = "Find" /\ ret.err = "" /\ Len(ret.rows) = 1
    /\ Len(calls) = 1 /\ Unconditional(calls[1])

(***************************************************************************)
(* Clause.Set on a clause set that already has entries                     *)
(***************************************************************************)
MaxSets == 3

\* the Set calls so far and the latest of them: the clause set before it, the
\* kind it set and its arguments
NoSet == [n |-> 0, before |-> EmptyClause, name |-> "", args |-> <<>>]

SInit ==
    /\ session = NewSession
    /\ db = EmptyDB
    /\ last = "New"
    /\ ret = Ret
    /\ calls = <<>>
    /\ hist = NoSet
    /\ given = NoMap
    /\ firstSet = "none"
    /\ built = None

\* c.Set(name, vars...)
SSet ==
    /\ hist.n < MaxSets
    /\ \E name \in Types : \E args \in SetArgs[name] :
          /\ session' = [session EXCEPT !.clause = ClauseSet(@, name, Generate(name, args))]
          /\ hist' = [n |-> hist.n + 1, before |-> session.clause,
                      name |-> name, args |-> args]
    /\ built' = None
    /\ last' = "Set"
    /\ UNCHANGED <<db, ret, calls, given, firstSet>>

\* c.Build(orders...)
SBuild ==
    /\ \E orders \in BuildOrders :
          built' = [orders |-> orders, out |-> Build(session.clause, orders)]
    /\ last' = "Build"
    /\ UNCHANGED <<session, db, ret, calls, hist, given, firstSet>>

SNext == SSet \/ SBuild

SpecSet == SInit /\ [][SNext]_vars

\* clause set c has for kind k the fragment and the parameters of gen
EntryIs(c, k, gen) ==
    /\ k \in DOMAIN c.sql /\ k \in DOMAIN c.sqlVars
    /\ c.sql[k] = gen.sql
    /\ c.sqlVars[k] = gen.vars

\* clause sets a and b agree on kind k: both have no entry, or the same one
SameEntry(a, b, k) ==
    /\ k \in DOMAIN a.sql <=> k \in DOMAIN b.sql
    /\ k \in DOMAIN a.sqlVars <=> k \in DOMAIN b.sqlVars
    /\ (k \in DOMAIN a.sql /\ k \in DOMAIN b.sql) => a.sql[k] = b.sql[k]
    /\ (k \in DOMAIN a.sqlVars /\ k \in DOMAIN b.sqlVars) => a.sqlVars[k] = b.sqlVars[k]

\* the fragment and the parameters a Build has to take for kind k after the
\* latest Set: those of the latest Set for its kind, the earlier ones else
Latest(k) ==
    IF k = hist.name THEN Generate(hist.name, hist.args)
    ELSE [sql |-> hist.before.sql[k], vars |-> hist.before.sqlVars[k]]

\* the kinds of orders that had an entry before the latest Set or got one by it
Entered(orders) ==
    SelectSeq(orders, LAMBDA k : k = hist.name \/ k \in DOMAIN hist.before.sql)

\* what a Build in the order P of kinds with entries has to return
BuiltFrom(P) ==
    [sql |-> Join([i \in 1..Len(P) |-> Latest(P[i]).sql], " "),
     vars |-> Flatten([i \in 1..Len(P) |-> Latest(P[i]).vars])]

\* C21: a Set of a kind leaves for that kind the fragment and the parameters
\* of this Set, whether the kind had an entry or not, and leaves the entries
\* of every other kind as they were; a Build after it takes the fragment of
\* the latest Set of each kind
C21_SetReplaces ==
    hist.n > 0 =>
        /\ EntryIs(session.clause, hist.name, Generate(hist.name, hist.args))
        /\ \A k \in Types \ {hist.name} : SameEntry(session.clause, hist.before, k)
        /\ built # None => built.out = BuiltFrom(Entered(built.orders))

\* a second Where on a clause set that holds SELECT and the condition Name = ?:
\* the statement built has the second condition only
C21_Witness ==
    /\ hist.n > 0 /\ hist.name = "WHERE"
    /\ EntryIs(hist.before, "WHERE", [sql |-> "WHERE Name = ?", vars |-> <<Tom>>])
    /\ "SELECT" \in DOMAIN hist.before.sql
    /\ built # None /\ built.orders = <<"SELECT", "WHERE", "ORDERBY", "LIMIT">>
    /\ built.out = [sql |-> "SELECT * FROM User WHERE Age > ? AND Age < ?",
                    vars |-> <<GoInt(18), GoInt(30)>>]

(***************************************************************************)
(* NewEngine, with the drivers and the dialects that are registered        *)
(***************************************************************************)
MaxNew == 2

DriverNames == {"sqlite3", "mysql", "postgres"}

SourceNames == {"gee.db", "/nowhere/gee.db"}

\* the calls of NewEngine so far, the registered drivers and dialects, and of
\* the latest call its arguments and what it returned
NoEngine == [n |-> 0, drivers |-> {}, dialectsMap |-> {}, driverName |-> "",
             dataSourceName |-> "", e |-> Nil, err |-> "", log |-> ""]

\* sqlite3 registers its dialect in init(); the drivers are those the program
\* imports, go-sqlite3 among them
NInit ==
    /\ session = NewSession
    /\ db = EmptyDB
    /\ last = "New"
    /\ ret = Ret
    /\ calls = <<>>
    /\ \E drivers \in SUBSET DriverNames :
          /\ "sqlite3" \in drivers
          /\ hist = [NoEngine EXCEPT !.drivers = drivers,
                                     !.dialectsMap = RegisterDialect({}, "sqlite3")]
    /\ given = NoMap
    /\ firstSet = "none"
    /\ built = None

\* dialect.RegisterDialect(name, d)
NRegister ==
    /\ \E name \in DriverNames :
          hist' = [hist EXCEPT !.dialectsMap = RegisterDialect(@, name)]
    /\ last' = "RegisterDialect"
    /\ UNCHANGED <<session, db, ret, calls>>
    /\ Frame

\* NewEngine(driverName, dataSourceName)
NNewEngine ==
    /\ hist.n < MaxNew
    /\ \E driverName \in DriverNames : \E dataSourceName \in SourceNames :
       \E ping \in {"", ErrDriver} :
          hist' = [n |-> hist.n + 1, drivers |-> hist.drivers,
                   dialectsMap |-> hist.dialectsMap,
                   driverName |-> driverName, dataSourceName |-> dataSourceName,
                   e |-> NewEngine(hist.drivers, hist.dialectsMap, driverName,
                                   dataSourceName, ping).e,
                   err |-> NewEngine(hist.drivers, hist.dialectsMap, driverName,
                                     dataSourceName, ping).err,
                   log |-> NewEngine(hist.drivers, hist.dialectsMap, driverName,
                                     dataSourceName, ping).log]
    /\ last' = "NewEngine"
    /\ UNCHANGED <<session, db, ret, calls>>
    /\ Frame

\* e.NewSession() on what the latest NewEngine returned: a nil engine is
\* dereferenced
NNewSession ==
    /\ last = "NewEngine"
    /\ session' = IF hist.e = Nil THEN session
                  ELSE [NewSession EXCEPT !.db = hist.e.db, !.dialect = hist.e.dialect]
    /\ ret' = [Ret EXCEPT !.panic = hist.e = Nil]
    /\ last' = "NewSession"
    /\ UNCHANGED <<db, calls, hist>>
    /\ Frame

NNext == NRegister \/ NNewEngine \/ NNewSession

SpecNew == NInit /\ [][NNext]_vars

\* C23: NewEngine returns a nil engine exactly when it returns an error
C23_NilEngineIffError ==
    last = "NewEngine" => (hist.e = Nil <=> hist.err # "")

=============================================================================
